---- MODULE Spec2Model ----
(***************************************************************************)
(* Verification model of the ubersquadrat optimizer:                       *)
(*   - optimizeSquare   (src/src/logic/optimizer.js)                       *)
(*   - the TSP solver   (src/src/logic/tsp-solver.js)                      *)
(*   - calculateRoute   (router.js, five revisions: src/unnamed/part_008   *)
(*                       with routing-strategies.js, two in                *)
(*                       src/unnamed/part_009, two in src/unnamed/part_010)*)
(* Cells are pairs <<i, j>>; the key "i,j" of the source is the pair.      *)
(* Coordinates are integers, 65536 steps to 0.00005 degrees (half the      *)
(* coordinate tolerance), counted from 51.7 N 8.3 E; distances are         *)
(* great-circle distances in millimetres and micrometres.                  *)
(***************************************************************************)
EXTENDS Integers, Sequences, FiniteSets, TLC

VARIABLES
  \* ---- optimizeSquare ----
  opc,              \* position inside optimizeSquare
  base,             \* {minI, maxI, minJ, maxJ}
  visitedSet,       \* set of visited cells
  maxHoleSize, direction, optimizationMode, targetNew,
  holes,            \* every hole the scan found
  validHoles,       \* holes.filter(h => h.size <= maxHoleSize)
  allCandidates,    \* findPerimeterSquares()
  scored,           \* candidates with score and layerDistance
  selected,         \* greedy selection, in selection order
  \* ---- TSP solver ----
  tpc, points, startPoint, roundtrip, nnRoute, optRoute, iterations,
  solver,           \* which revision of twoOptOptimize runs
  iterationCap,     \* the maxIterations argument of twoOptOptimize
  \* ---- calculateRoute ----
  rpc,              \* position inside calculateRoute
  revision,         \* which revision of router.js runs
  squares,          \* extractProposedSquares(): the cell centres
  roadData,         \* the roads the road servers hold, in list order
  bikeType,
  roadFetchFailed,
  finalRoute,       \* finalTspResult.route
  finalWaypoints,   \* the waypoint list of the current tier
  routeWithRoads, skippedSquareCoords,
  currentLevel,     \* simplification.currentLevel
  tier,             \* the step of the fallback chain that is running
  profileIdx,       \* 1-based position in the profile list of the tier
  submitted,        \* the waypoint list of the request in flight
  lastError,
  attempts,         \* every call of callBRouterAPI, in order
  outcome,          \* what calculateRoute returned or threw
  solverCalls,      \* the tsp-solver functions calculateRoute called, in order
  orderedCells,     \* orderedSquares of calculateRoute: 1-based indices in squares
  \* ---- the refinement loop of calculateRoute, round by round ----
  refinement,       \* currentRoute, round, lastDistance, and the last round
  \* ---- fetchRoadsInArea ----
  fpc,              \* position inside fetchRoadsInArea
  fetcher,          \* which revision of road-fetcher.js runs
  maxRetries,
  instanceIdx,      \* index into OVERPASS_INSTANCES
  attempt,          \* attempts on the current instance
  totalAttempts,
  lastFetchError,   \* lastError of fetchRoadsInArea: what the last failed
                    \* request came back with
  requests,         \* every HTTP request made, in order
  \* ---- the parallel road fetch of calculateRoute ----
  fstage,           \* "single", "sequential", "parallel", "fallback",
                    \* "caught" or "merged"
  partitions,       \* per call of the fetch: its cells, instance, requests, state
  roadAnswers,      \* what the road servers can answer in this calculation
  \* ---- SimplificationStrategy and createMinimalWaypoints ----
  spc,              \* "idle", "ready" (constructed) or "minimal"
  strategyWaypoints,\* this.originalWaypoints
  strategyLevel,    \* this.currentLevel
  levelLists,       \* the waypoint lists nextLevel() returned, in order
  minimalWaypoints, \* what createMinimalWaypoints returned
  \* ---- waypoint placement inside one cell ----
  ppc,              \* "idle", "cell", "neutral" or "sequence"
  cellRoads,        \* roadsInSquare: the roads of the cell, original and clipped
  prevPoint,        \* previous waypoint, <<>> for null
  nextPoint,        \* next reference point, <<>> for null
  placerNextSquare, \* nextSquare, NoSquare for null
  placerCandidates, \* the candidates collected by the last call
  placerResult,     \* what the last call returned
  turfRelease,      \* the release of @turf/turf the build resolves
  \* ---- grid parameters and the scan over the grid cells ----
  gpc,              \* "idle", "kml" (bounds known), "scan" or "done"
  gridRevision,     \* "none", "buffer" (part_000) or "range" (part_007)
  uber,             \* bounds of the ubersquadrat and its size attribute
  gridParams,       \* what calculateGridParameters returned
  scanNext,         \* the cell the scan loop handles next, <<>> at its end
  scanLast,         \* the cell the scan loop handled last, <<>> at first
  cellCenter,       \* <<cellCenterLat, cellCenterLon>> of scanLast
  cellsAt,          \* the cells whose rectangle holds cellCenter
  \* ---- the store and the route controls of the user interface ----
  storeGrid,        \* whether store.grid.latStep is not null
  proposedSquares,  \* store.proposedSquares, as a set of cells
  optimizeRuns,     \* how many optimizations have set proposedSquares
  storeStartPoint,  \* whether store.routing.startPoint is not null
  selectingStartPoint, \* store.routing.selectingStartPoint
  routingCurrentRoute,\* store.routing.currentRoute
  calculating,      \* calculating.value of RouteControls
  inFlight,         \* the squares the pending calculateRoute call took
  \* ---- AppState of static/js/map.js and the KML loads ----
  kmlLoading,       \* AppState.kmlLoading
  loadsStarted,     \* how many times loadKml has been called
  pendingLoads,     \* the loads whose layer has not fired ready or error
  gridFile,         \* the load AppState.grid and baseSquare come from, 0: null
  visitedFile,      \* the load AppState.visitedSet comes from, 0: none
  lastClick         \* what the last click on the optimize button did

optVars == <<opc, base, visitedSet, maxHoleSize, direction, optimizationMode,
             targetNew, holes, validHoles, allCandidates, scored, selected>>
tspVars == <<tpc, points, startPoint, roundtrip, nnRoute, optRoute, iterations,
             solver, iterationCap>>
rtVars  == <<rpc, revision, squares, roadData, bikeType, roadFetchFailed,
             finalRoute, finalWaypoints, routeWithRoads, skippedSquareCoords,
             currentLevel, tier, profileIdx, submitted, lastError, attempts,
             outcome, solverCalls, orderedCells>>
refVars == <<refinement>>
fetchVars == <<fpc, fetcher, maxRetries, instanceIdx, attempt, totalAttempts,
               lastFetchError, requests>>
partVars == <<fstage, partitions, roadAnswers>>
stratVars == <<spc, strategyWaypoints, strategyLevel, levelLists, minimalWaypoints>>
\* the components that stand apart from optimizer, solver, router and fetch
placerVars == <<ppc, cellRoads, prevPoint, nextPoint, placerNextSquare,
                placerCandidates, placerResult, turfRelease>>
gridVars == <<gpc, gridRevision, uber, gridParams, scanNext, scanLast, cellCenter, cellsAt>>
uiVars == <<storeGrid, proposedSquares, optimizeRuns, storeStartPoint,
            selectingStartPoint, routingCurrentRoute, calculating, inFlight>>
kmlVars == <<kmlLoading, loadsStarted, pendingLoads, gridFile, visitedFile,
             lastClick>>
extVars == <<stratVars, placerVars, gridVars, uiVars, kmlVars>>
vars == <<optVars, tspVars, rtVars, refVars, fetchVars, partVars, extVars>>

\* ------------------------------------------------------------------------
\* Arithmetic helpers
\* ------------------------------------------------------------------------
Max2(a, b) == IF a >= b THEN a ELSE b
Min2(a, b) == IF a <= b THEN a ELSE b
Abs(a) == IF a < 0 THEN -a ELSE a

\* The grid of the coordinates: 0.00005 degrees are Unit steps of it. A
\* point [lat |-> y, lon |-> x] lies y / Unit * 0.00005 degrees north and
\* x / Unit * 0.00005 degrees east of 51.7 N 8.3 E, where the map opens
\* (LeafletMap.vue: setView([51.7, 8.3])); one step is 85 micrometres to the
\* north and 53 to the east. The corners of cells, the ends of roads and the
\* points the user gives are whole multiples of 0.00005 degrees, `whole
\* units'; a position the code computes from them is the step nearest to it.
Unit == 65536
HalfUnit == 32768

\* the point y units north and x units east of the origin
unitPoint(y, x) == [lat |-> y * Unit, lon |-> x * Unit]

\* A length: whole millimetres, the micrometres beyond them, 0..999, and the
\* micrometres by which the code's length may differ
ZeroLength == [mm |-> 0, um |-> 0, slack |-> 0]

SeqToSet(s) == {s[k] : k \in 1..Len(s)}

\* Array.prototype.sort with a "descending by key" comparator, on a sequence
\* of [key, val] pairs: a stable merge sort, the left element first on equal
\* keys.
RECURSIVE MergeDesc(_, _)
MergeDesc(a, b) ==
  IF a = <<>> THEN b
  ELSE IF b = <<>> THEN a
  ELSE IF Head(b).key > Head(a).key
       THEN <<Head(b)>> \o MergeDesc(a, Tail(b))
       ELSE <<Head(a)>> \o MergeDesc(Tail(a), b)

RECURSIVE SortDesc(_)
SortDesc(s) ==
  IF Len(s) <= 1 THEN s
  ELSE LET h == Len(s) \div 2
       IN MergeDesc(SortDesc(SubSeq(s, 1, h)), SortDesc(SubSeq(s, h + 1, Len(s))))

\* ========================================================================
\* optimizeSquare
\* ========================================================================
SearchRadius == 5

Directions == {"N", "S", "E", "W"}

\* MODE_MULTIPLIERS, in tenths (0.3 is 3/10)
MODE_MULTIPLIERS(mode) ==
  IF mode = "edge" THEN [edge |-> 30, hole |-> 3]
  ELSE IF mode = "holes" THEN [edge |-> 3, hole |-> 20]
  ELSE [edge |-> 10, hole |-> 10]

calculateLayerDistance(i, j) ==
  LET distI == Max2(0, Max2(base.minI - i - 1, i - base.maxI - 1))
      distJ == Max2(0, Max2(base.minJ - j - 1, j - base.maxJ - 1))
  IN [distI |-> distI, distJ |-> distJ, total |-> distI + distJ]

manhattanDistance(p1, p2) == Abs(p1.i - p2.i) + Abs(p1.j - p2.j)

\* Mutant: the search area is the ubersquadrat itself
getSearchBounds_NoRadius(radius) ==
  [minI |-> base.minI, maxI |-> base.maxI, minJ |-> base.minJ, maxJ |-> base.maxJ]

getSearchBounds(radius) ==
  [minI |-> base.minI - radius, maxI |-> base.maxI + radius,
   minJ |-> base.minJ - radius, maxJ |-> base.maxJ + radius]

getNeighborKeys(i, j) == << <<i - 1, j>>, <<i + 1, j>>, <<i, j - 1>>, <<i, j + 1>> >>

isOnUbersquadratBorder(i, j) ==
  \/ (i = base.maxI + 1 /\ j >= base.minJ - 1 /\ j <= base.maxJ + 1)
  \/ (i = base.minI - 1 /\ j >= base.minJ - 1 /\ j <= base.maxJ + 1)
  \/ (j = base.maxJ + 1 /\ i >= base.minI - 1 /\ i <= base.maxI + 1)
  \/ (j = base.minJ - 1 /\ i >= base.minI - 1 /\ i <= base.maxI + 1)

\* analyzeEdge: the visited count and the length of one border row/column
analyzeEdge(name) ==
  LET cells ==
        IF name = "N" THEN {<<base.maxI + 1, k>> : k \in base.minJ..base.maxJ}
        ELSE IF name = "S" THEN {<<base.minI - 1, k>> : k \in base.minJ..base.maxJ}
        ELSE IF name = "E" THEN {<<k, base.maxJ + 1>> : k \in base.minI..base.maxI}
        ELSE {<<k, base.minJ - 1>> : k \in base.minI..base.maxI}
      total == Cardinality(cells)
      unvisitedCount == Cardinality(cells \ visitedSet)
  IN [name |-> name, total |-> total, unvisitedCount |-> unvisitedCount,
      visitedCount |-> total - unvisitedCount,
      canExpand |-> unvisitedCount = 0]

\* ---- the doubles of the edge bonus ----
\* A positive double is its 53 significant bits, first bit first, and the
\* power of two the first bit stands for: [bits |-> <<1, ...>>, exp |-> e].
DoublePrecision == 53

zeroDouble == [bits |-> [k \in 1..DoublePrecision |-> 0], exp |-> 0]

\* the digits from the first 1 on, and the power of two it stands for
stripZeros(bits, exp) ==
  IF \A k \in 1..Len(bits) : bits[k] = 0 THEN [bits |-> <<>>, exp |-> exp]
  ELSE LET first == CHOOSE k \in 1..Len(bits) :
                      bits[k] = 1 /\ \A m \in 1..(k - 1) : bits[m] = 0
       IN [bits |-> SubSeq(bits, first, Len(bits)), exp |-> exp - (first - 1)]

\* the significant bits plus one in the last place
nextUp(head, exp) ==
  LET zeros == {k \in 1..Len(head) : head[k] = 0}
  IN IF zeros = {}
       THEN [bits |-> [k \in 1..Len(head) |-> IF k = 1 THEN 1 ELSE 0],
             exp |-> exp + 1]
     ELSE LET last == CHOOSE k \in zeros : \A m \in zeros : m <= k
          IN [bits |-> [k \in 1..Len(head) |->
                          IF k < last THEN head[k] ELSE IF k = last THEN 1 ELSE 0],
              exp |-> exp]

\* round to nearest, ties to even: the bits after the 53rd decide
roundBits(bits, exp) ==
  IF Len(bits) <= DoublePrecision
    THEN [bits |-> bits \o [k \in 1..(DoublePrecision - Len(bits)) |-> 0],
          exp |-> exp]
  ELSE IF /\ bits[DoublePrecision + 1] = 1
          /\ \/ bits[DoublePrecision] = 1
             \/ \E k \in (DoublePrecision + 2)..Len(bits) : bits[k] = 1
    THEN nextUp(SubSeq(bits, 1, DoublePrecision), exp)
  ELSE [bits |-> SubSeq(bits, 1, DoublePrecision), exp |-> exp]

\* the double nearest to the number with these binary digits
roundToDouble(digits) ==
  IF digits.bits = <<>> THEN zeroDouble ELSE roundBits(digits.bits, digits.exp)

\* binary digits are handled eight at a time
byteDigits == <<128, 64, 32, 16, 8, 4, 2, 1>>

bitsOf(bytes) ==
  [k \in 1..(8 * Len(bytes)) |->
     (bytes[(k + 7) \div 8] \div byteDigits[((k - 1) % 8) + 1]) % 2]

bytesOf(bits) ==
  [m \in 1..(Len(bits) \div 8) |->
     bits[8 * m - 7] * 128 + bits[8 * m - 6] * 64 + bits[8 * m - 5] * 32
       + bits[8 * m - 4] * 16 + bits[8 * m - 3] * 8 + bits[8 * m - 2] * 4
       + bits[8 * m - 1] * 2 + bits[8 * m]]

\* the next 8 * n binary digits of r / t for r < t < 2^23, as bytes, and a
\* last byte that tells whether a remainder is left
RECURSIVE quotientBytes(_, _, _)
quotientBytes(r, t, n) ==
  IF n = 0 THEN <<IF r > 0 THEN 1 ELSE 0>>
  ELSE <<(256 * r) \div t>> \o quotientBytes((256 * r) % t, t, n - 1)

\* the double v / t for whole numbers 0 <= v <= t, 0 < t < 2^23
divideDoubles(v, t) ==
  IF v = 0 THEN zeroDouble
  ELSE IF v = t THEN roundToDouble([bits |-> <<1>>, exp |-> 0])
  ELSE roundToDouble(stripZeros(bitsOf(quotientBytes(v, t, 10)), -1))

\* the bytes of a number times the whole number k < 256: the low bytes acc,
\* from byte n down, and the last carry in front
RECURSIVE productBytes(_, _, _, _, _)
productBytes(bytes, k, n, carry, acc) ==
  IF n = 0 THEN <<carry>> \o acc
  ELSE productBytes(bytes, k, n - 1, (bytes[n] * k + carry) \div 256,
                    <<(bytes[n] * k + carry) % 256>> \o acc)

\* the double d * k for a whole number 0 < k < 256: the 53 bits are seven
\* bytes after three leading zeros, the product has one byte more
timesDouble(d, k) ==
  roundToDouble(stripZeros(bitsOf(productBytes(bytesOf(<<0, 0, 0>> \o d.bits), k,
                                               7, 0, <<>>)),
                           d.exp + 11))

RECURSIVE wholePart(_, _)
wholePart(bits, n) ==
  IF n = 0 THEN 0 ELSE 2 * wholePart(bits, n - 1) + bits[n]

\* Math.floor(d) for a double below 2^31
mathFloor(d) ==
  IF d.exp < 0 THEN 0
  ELSE wholePart(d.bits \o [k \in 1..(d.exp + 1) |-> 0], d.exp + 1)

\* completion = (visitedCount / total) * 100
completion(visitedCount, total) ==
  timesDouble(divideDoubles(visitedCount, total), 100)

\* Math.floor(completion * 5)
flooredTimes5(visitedCount, total) ==
  mathFloor(timesDouble(completion(visitedCount, total), 5))

\* Math.floor(edges[dir].completion * 5)
edgeCompletionTimes5(dir) ==
  flooredTimes5(analyzeEdge(dir).visitedCount, analyzeEdge(dir).total)

isInSearchBounds(i, j) ==
  LET searchBounds == getSearchBounds(SearchRadius)
  IN i >= searchBounds.minI /\ i <= searchBounds.maxI /\
     j >= searchBounds.minJ /\ j <= searchBounds.maxJ

\* The cells of the search area in the order of the two nested scan loops
ScanCells ==
  LET sb == getSearchBounds(SearchRadius)
      w == sb.maxJ - sb.minJ + 1
      n == (sb.maxI - sb.minI + 1) * w
  IN [k \in 1..n |-> <<sb.minI + ((k - 1) \div w), sb.minJ + ((k - 1) % w)>>]

\* The while loop of findContiguousRegion: queue, region, the caller's
\* processedSquares (visited) and the local regionVisited.
RECURSIVE FloodFill(_, _, _, _)
FloodFill(queue, region, visited, regionVisited) ==
  IF queue = <<>> THEN [region |-> region, visited |-> visited]
  ELSE
    LET c == Head(queue)
        rest == Tail(queue)
    IN IF c \in visited \/ c \in visitedSet
         THEN FloodFill(rest, region, visited, regionVisited)
       ELSE IF ~isInSearchBounds(c[1], c[2])
         THEN FloodFill(rest, region, visited, regionVisited)
       ELSE
         LET fresh == SelectSeq(getNeighborKeys(c[1], c[2]),
                        LAMBDA n : /\ n \notin regionVisited
                                   /\ n \notin visitedSet
                                   /\ isInSearchBounds(n[1], n[2]))
         IN FloodFill(rest \o fresh, Append(region, c), visited \cup {c},
                      regionVisited \cup SeqToSet(fresh))

\* Mutant: the region's cells are not recorded in processedSquares
findContiguousRegion_NoMark(startI, startJ, visited) ==
  [region |-> FloodFill(<< <<startI, startJ>> >>, <<>>, visited,
                        {<<startI, startJ>>}).region,
   visited |-> visited]

findContiguousRegion(startI, startJ, visited) ==
  FloodFill(<< <<startI, startJ>> >>, <<>>, visited, {<<startI, startJ>>})

RECURSIVE SumLayer(_)
SumLayer(region) ==
  IF region = <<>> THEN 0
  ELSE calculateLayerDistance(Head(region)[1], Head(region)[2]).total
       + SumLayer(Tail(region))

\* The hole scan over the search area (lines 137-173). `cells` is what is
\* left of the scan order; cells already processed or visited are skipped
\* (the `continue` of the loop), the first other cell starts a flood fill.
RECURSIVE ScanHoles(_, _, _)
ScanHoles(cells, hs, processedSquares) ==
  LET pending == SelectSeq(cells, LAMBDA c : ~(c \in processedSquares \/ c \in visitedSet))
  IN IF pending = <<>> THEN hs
     ELSE
       LET c == Head(pending)
           r == findContiguousRegion(c[1], c[2], processedSquares)
       IN IF Len(r.region) > 0
            THEN ScanHoles(Tail(pending),
                   Append(hs, [id |-> Len(hs), squares |-> r.region,
                               size |-> Len(r.region),
                               totalLayerDist |-> SumLayer(r.region)]),
                   r.visited)
            ELSE ScanHoles(Tail(pending), hs, r.visited)

detectHoles == ScanHoles(ScanCells, <<>>, {})

NoHole == [id |-> -1, squares |-> <<>>, size |-> 0, totalLayerDist |-> 0]

\* squareToHoleMap.get(key) after the rebuild from the valid holes: a later
\* hole's set() overwrites an earlier one
squareToHoleMap(vh, c) ==
  LET idx == {k \in 1..Len(vh) : c \in SeqToSet(vh[k].squares)}
  IN IF idx = {} THEN NoHole
     ELSE vh[CHOOSE k \in idx : \A m \in idx : m <= k]


\* visitedSet.has(`${i},${j}`)
isVisited_SwappedKey(i, j) == <<j, i>> \in visitedSet

isVisited(i, j) == <<i, j>> \in visitedSet

\* The layerDistance of findPerimeterSquares (lines 209-214)
perimeterLayerDistance(i, j) ==
  Min2(Min2(Max2(0, i - base.maxI - 1), Max2(0, base.minI - i - 1)),
       Min2(Max2(0, j - base.maxJ - 1), Max2(0, base.minJ - j - 1)))

\* positions -> edge: the letters N, S, E, W whose test is true
edgeOf(i, j) ==
  {d \in Directions : \/ (d = "N" /\ i > base.maxI)
                      \/ (d = "S" /\ i < base.minI)
                      \/ (d = "E" /\ j > base.maxJ)
                      \/ (d = "W" /\ j < base.minJ)}

findPerimeterSquares ==
  LET kept == SelectSeq(ScanCells,
                LAMBDA c : /\ ~isVisited(c[1], c[2])
                           /\ ~(perimeterLayerDistance(c[1], c[2]) > SearchRadius))
  IN [k \in 1..Len(kept) |->
        [i |-> kept[k][1], j |-> kept[k][2], edge |-> edgeOf(kept[k][1], kept[k][2])]]

\* allCandidates.filter(c => !visitedSet.has(`${c.i},${c.j}`))
unvisitedOf(cands) == SelectSeq(cands, LAMBDA c : ~isVisited(c.i, c.j))

SetMax(S) == CHOOSE x \in S : \A y \in S : y <= x

\* direction.some(dir => matches[dir]) (lines 293-301)
matchesAnyDirection(square, dir) == dir \cap edgeOf(square.i, square.j) # {}

\* Mutant: the penalty is of the order of the other score terms
directionPenalty_Small(square, dir) ==
  IF Cardinality(dir) < 4 /\ ~matchesAnyDirection(square, dir) THEN 1000 ELSE 0

\* The direction filter (lines 289-305): what is subtracted from the score
directionPenalty(square, dir) ==
  IF Cardinality(dir) < 4 /\ ~matchesAnyDirection(square, dir) THEN 1000000 ELSE 0

\* The body of scored = unvisited.map(square => ...)
scoreSquare(square, vh, dir, mode) ==
  LET isBorder == isOnUbersquadratBorder(square.i, square.j)
      layerDistance ==
        IF isBorder THEN 0 ELSE calculateLayerDistance(square.i, square.j).total
      layerTerm ==
        IF layerDistance = 0 THEN 10000
        ELSE IF layerDistance = 1 THEN 5000
        ELSE IF layerDistance = 2 THEN 2000
        ELSE IF layerDistance = 3 THEN 500
        ELSE IF layerDistance = 4 THEN -2000
        ELSE -10000
      edgeBonus0 ==
        IF square.edge = {} THEN 0
        ELSE SetMax({edgeCompletionTimes5(d) : d \in square.edge})
      squareKey == <<square.i, square.j>>
      hole == squareToHoleMap(vh, squareKey)
      holeMultiplier ==
        IF layerDistance >= 5 THEN 200 ELSE IF layerDistance >= 3 THEN 400 ELSE 800
      holeSizeBonus0 == IF hole = NoHole THEN 0 ELSE hole.size * holeMultiplier
      unvisitedInHole ==
        Cardinality({k \in 1..Len(hole.squares) :
                       /\ hole.squares[k] \notin visitedSet
                       /\ hole.squares[k] # squareKey})
      completionBonus == IF hole # NoHole /\ unvisitedInHole = 0 THEN 1500 ELSE 0
      mult == MODE_MULTIPLIERS(mode)
      edgeBonus == (edgeBonus0 * mult.edge) \div 10
      holeSizeBonus == (holeSizeBonus0 * mult.hole) \div 10
      nb == getNeighborKeys(square.i, square.j)
      adjacency == Cardinality({k \in 1..4 : nb[k] \in visitedSet})
      penalty == directionPenalty(square, dir)
  IN [i |-> square.i, j |-> square.j, edge |-> square.edge,
      score |-> 100 + layerTerm + completionBonus + edgeBonus + holeSizeBonus
                + adjacency * 25 - penalty,
      layerDistance |-> layerDistance]

\* routeScore of one remaining square in the greedy loop (lines 328-337)
routeScore(sq, last, sel, vh) ==
  LET sqHole == squareToHoleMap(vh, <<sq.i, sq.j>>)
  IN sq.score - manhattanDistance(sq, last) * 100
     + (IF /\ sqHole # NoHole
           /\ \E k \in 1..Len(sel) :
                squareToHoleMap(vh, <<sel[k].i, sel[k].j>>).id = sqHole.id
        THEN 1500 ELSE 0)

Vals(pairs) == [k \in 1..Len(pairs) |-> pairs[k].val]

\* Mutant: the loop runs once more after the target is reached
loopContinues_OneMore(sel, rem, target) == Len(sel) <= target /\ Len(rem) > 0

\* selected.length < targetNew && remaining.length > 0 (line 324)
loopContinues(sel, rem, target) == Len(sel) < target /\ Len(rem) > 0

\* while (selected.length < targetNew && remaining.length > 0) { ... }
RECURSIVE greedyLoop(_, _, _, _)
greedyLoop(sel, rem, target, vh) ==
  IF ~loopContinues(sel, rem, target) THEN sel
  ELSE
    LET last == sel[Len(sel)]
        sorted == Vals(SortDesc([k \in 1..Len(rem) |->
                    [key |-> routeScore(rem[k], last, sel, vh), val |-> rem[k]]]))
    IN greedyLoop(Append(sel, Head(sorted)), Tail(sorted), target, vh)

\* Step 5 of optimizeSquare: the selected squares, in selection order
greedySelection(sc, target, vh) ==
  IF Len(sc) = 0 THEN <<>>
  ELSE
    LET sorted == Vals(SortDesc([k \in 1..Len(sc) |->
                    [key |-> sc[k].score, val |-> sc[k]]]))
    IN greedyLoop(<<Head(sorted)>>, Tail(sorted), target, vh)

\* ---- inputs of the optimizer model ----
MaxBaseSize == 2      \* the ubersquadrat is size x size, size in 1..MaxBaseSize
MaxFlipped == 3       \* cells of the probe area whose visited state is flipped
\* targetNew is what the caller hands over: the slider of OptimizeControls
\* gives 1 and more, handleOptimizeClick of static/js/map.js gives
\* parseInt of a text field, which optimizeSquare does not validate
MaxTarget == 3
TargetChoices == -1..MaxTarget
ReferenceSize == 16   \* side of the reference ubersquadrat

Modes == {"balanced", "edge", "holes"}
DirectionChoices == {Directions, {"N"}, {"S", "W"}}
HoleSizeChoices == {1, 3}

\* The probe area, as offsets from the north-east corner cell (maxI, maxJ):
\* a base cell, border cells, layer-1 cells, and cells on both sides of the
\* search boundary.
ProbeOffsets == {<<0, 0>>, <<1, 0>>, <<0, 1>>, <<1, 1>>, <<2, 0>>, <<2, 1>>,
                 <<5, 0>>, <<6, 0>>, <<5, 1>>}

BaseOf(size) == [minI |-> 0, maxI |-> size - 1, minJ |-> 0, maxJ |-> size - 1]
BaseCells(b) == (b.minI..b.maxI) \X (b.minJ..b.maxJ)
ProbeCells(b) == {<<b.maxI + o[1], b.maxJ + o[2]>> : o \in ProbeOffsets}
ScanArea(b) ==
  ((b.minI - SearchRadius - 1)..(b.maxI + SearchRadius + 1))
    \X ((b.minJ - SearchRadius - 1)..(b.maxJ + SearchRadius + 1))
SubsetsUpTo(S, n) == {F \in SUBSET S : Cardinality(F) <= n}

TspSolverIdle ==
  /\ tpc = "idle" /\ points = <<>> /\ nnRoute = <<>> /\ optRoute = <<>>
  /\ iterations = 0 /\ solver = "none" /\ iterationCap = 0

TspIdle ==
  /\ TspSolverIdle /\ startPoint = unitPoint(0, 0) /\ roundtrip = FALSE

NoOutcome ==
  [status |-> "none", error |-> "none", profileUsed |-> "none",
   roadAware |-> FALSE, simplified |-> FALSE, minimal |-> FALSE]

RouterIdle ==
  /\ rpc = "idle" /\ revision = "none" /\ squares = <<>> /\ roadData = <<>>
  /\ bikeType = "trekking" /\ roadFetchFailed = FALSE /\ finalRoute = <<>>
  /\ finalWaypoints = <<>> /\ routeWithRoads = <<>>
  /\ skippedSquareCoords = <<>> /\ currentLevel = -1 /\ tier = "none"
  /\ profileIdx = 0 /\ submitted = <<>> /\ lastError = "none"
  /\ attempts = <<>> /\ outcome = NoOutcome /\ solverCalls = <<>>
  /\ orderedCells = <<>>

\* no refinement loop runs
NoRefinement ==
  [route |-> <<>>, round |-> 0, lastDistance |-> ZeroLength, ended |-> TRUE,
   swaps |-> 0, lengths |-> <<>>, gain |-> 0, calls |-> <<>>]

RefinementIdle == refinement = NoRefinement

\* the road fetch of calculateRoute is not followed group by group
PartitionsIdle == fstage = "idle" /\ partitions = <<>> /\ roadAnswers = {}

FetcherIdle ==
  /\ PartitionsIdle
  /\ fpc = "idle" /\ fetcher = "none" /\ maxRetries = 0 /\ instanceIdx = 0
  /\ attempt = 0 /\ totalAttempts = 0 /\ lastFetchError = "none"
  /\ requests = <<>>

\* no SimplificationStrategy has been constructed
StrategiesIdle ==
  /\ spc = "idle" /\ strategyWaypoints = <<>> /\ strategyLevel = -1
  /\ levelLists = <<>> /\ minimalWaypoints = <<>>

\* a square without bounds, and the null of nextSquare
NoBounds == <<>>

NoSquare == [lat |-> 0, lon |-> 0, gridCoords |-> <<>>, bounds |-> NoBounds]

\* findBestWaypoint...: return null
NoWaypoint == [point |-> <<>>, type |-> "none", isConnecting |-> FALSE]

\* import * as turf from '@turf/turf': the source names no release. The
\* releases differ in nearestPointOnLine only: up to 7.0 it crosses the line
\* with a chord through the reference point, from 7.1 on it takes the foot
\* of the reference point on the great circle through the line. The placer
\* of one cell is followed with either release. What calculateRoute keeps of
\* a cell is its best candidate, never a nearest point (the midpoint of the
\* same road ranks above it), so the other parts are followed with one.
TurfReleases == {"6.5", "7.1"}

PlacerIdle ==
  /\ ppc = "idle" /\ cellRoads = <<>> /\ prevPoint = <<>> /\ nextPoint = <<>>
  /\ placerNextSquare = NoSquare /\ placerCandidates = <<>>
  /\ placerResult = NoWaypoint /\ turfRelease = "6.5"

NoGrid == [latStep |-> 0, lonStep |-> 0, originLat |-> 0, originLon |-> 0,
           baseSquare |-> [minI |-> 0, maxI |-> 0, minJ |-> 0, maxJ |-> 0]]

GridIdle ==
  /\ gridRevision = "none"
  /\ gpc = "idle" /\ uber = <<>> /\ gridParams = NoGrid
  /\ scanNext = <<>> /\ scanLast = <<>> /\ cellCenter = <<>> /\ cellsAt = {}

\* routing.currentRoute: null
NoRoute == [squares |-> {}, run |-> 0]

\* the state of the store before a KML file is loaded
UiIdle ==
  /\ storeGrid = FALSE
  /\ proposedSquares = {} /\ optimizeRuns = 0 /\ storeStartPoint = FALSE
  /\ selectingStartPoint = FALSE /\ routingCurrentRoute = NoRoute
  /\ calculating = FALSE /\ inFlight = NoRoute

\* no click on the optimize button yet
NoClick == [result |-> "none", pending |-> {}]

\* AppState as declared, before initializeKmlSelector
KmlIdle ==
  /\ kmlLoading = FALSE /\ loadsStarted = 0 /\ pendingLoads = {}
  /\ gridFile = 0 /\ visitedFile = 0 /\ lastClick = NoClick

ExtIdle == StrategiesIdle /\ PlacerIdle /\ GridIdle /\ UiIdle /\ KmlIdle

OptimizerIdle ==
  /\ opc = "idle" /\ base = BaseOf(1) /\ visitedSet = {} /\ maxHoleSize = 0
  /\ direction = Directions /\ optimizationMode = "balanced" /\ targetNew = 0
  /\ holes = <<>> /\ validHoles = <<>> /\ allCandidates = <<>> /\ scored = <<>>
  /\ selected = <<>>

\* The cells around the ubersquadrat, one layer wide
BorderRing(b) ==
  ((b.minI - 1)..(b.maxI + 1)) \X ((b.minJ - 1)..(b.maxJ + 1)) \ BaseCells(b)

\* The one cell missing from the reference region: on the row directly
\* north of the ubersquadrat, in column j
ReferenceGap(b, j) == <<b.maxI + 1, j>>

\* A loaded region: the scan marked every cell visited except a few probe
\* cells, or every cell except the whole border ring and at most one probe
\* cell, or (the reference region) every cell except one of the row north of
\* a large ubersquadrat.
InitOptimizer ==
  /\ ExtIdle
  /\ opc = "start"
  /\ \/ \E size \in 1..MaxBaseSize :
       /\ base = BaseOf(size)
       /\ \/ \E F \in SubsetsUpTo(ProbeCells(BaseOf(size)), MaxFlipped) :
               visitedSet = ScanArea(BaseOf(size)) \ F
          \/ \E F \in SubsetsUpTo(ProbeCells(BaseOf(size)), 1) :
               visitedSet = ScanArea(BaseOf(size)) \ (BorderRing(BaseOf(size)) \cup F)
     \/ /\ base = BaseOf(ReferenceSize)
        /\ \E j \in 0..(ReferenceSize - 1) :
             visitedSet = ScanArea(BaseOf(ReferenceSize))
                            \ {ReferenceGap(BaseOf(ReferenceSize), j)}
  /\ maxHoleSize = 0 /\ direction = Directions /\ optimizationMode = "balanced"
  /\ targetNew = 0
  /\ holes = <<>> /\ validHoles = <<>> /\ allCandidates = <<>> /\ scored = <<>>
  /\ selected = <<>>
  /\ TspIdle /\ RouterIdle /\ RefinementIdle /\ FetcherIdle

\* Phase 1.5: hole detection and the maxHoleSize filter (lines 131-184)
DetectHoles ==
  /\ opc = "start"
  /\ \E mhs \in HoleSizeChoices :
       LET hs == detectHoles IN
       /\ maxHoleSize' = mhs
       /\ holes' = hs
       /\ validHoles' = SelectSeq(hs, LAMBDA h : h.size <= mhs)
  /\ opc' = "holes"
  /\ UNCHANGED <<base, visitedSet, direction, optimizationMode, targetNew,
                 allCandidates, scored, selected, tspVars, rtVars, refVars, fetchVars, partVars, extVars>>

\* Phases 3 and 4: candidate collection and scoring (lines 230-309)
ScoreCandidates ==
  /\ opc = "holes"
  /\ \E dir \in DirectionChoices, mode \in Modes :
       LET cands == findPerimeterSquares
           unvisited == unvisitedOf(cands)
       IN /\ direction' = dir
          /\ optimizationMode' = mode
          /\ allCandidates' = cands
          /\ scored' = [k \in 1..Len(unvisited) |->
                          scoreSquare(unvisited[k], validHoles, dir, mode)]
  /\ opc' = "scored"
  /\ UNCHANGED <<base, visitedSet, maxHoleSize, targetNew, holes, validHoles,
                 selected, tspVars, rtVars, refVars, fetchVars, partVars, extVars>>

\* Step 5: greedy selection and return (lines 312-346)
GreedySelect ==
  /\ opc = "scored"
  /\ \E target \in TargetChoices :
       /\ targetNew' = target
       /\ selected' = greedySelection(scored, target, validHoles)
  /\ opc' = "done"
  /\ UNCHANGED <<base, visitedSet, maxHoleSize, direction, optimizationMode,
                 holes, validHoles, allCandidates, scored, tspVars, rtVars, refVars, fetchVars, partVars, extVars>>

NextOptimizer == DetectHoles \/ ScoreCandidates \/ GreedySelect

SpecOptimizer == InitOptimizer /\ [][NextOptimizer]_vars


\* ------------------------------------------------------------------------
\* Properties of optimizeSquare
\* ------------------------------------------------------------------------
SelectedCells == {<<selected[k].i, selected[k].j>> : k \in 1..Len(selected)}
CandidateCells == {<<scored[k].i, scored[k].j>> : k \in 1..Len(scored)}
SearchCells == SeqToSet(ScanCells)
UnvisitedInBounds == SearchCells \ visitedSet
HoleCells(k) == SeqToSet(holes[k].squares)
Adjacent(a, b) == Abs(a[1] - b[1]) + Abs(a[2] - b[2]) = 1

\* The 4-connected component of S within U, as a least fixpoint
RECURSIVE Closure(_, _)
Closure(S, U) ==
  LET grown == S \cup {n \in U : \E c \in S : Adjacent(n, c)}
  IN IF grown = S THEN S ELSE Closure(grown, U)

\* C1: no cell returned by the optimizer is in the visited set.
C1_NoVisitedReturned ==
  opc = "done" => SelectedCells \cap visitedSet = {}

C1_Witness ==
  /\ opc = "done" /\ Len(selected) >= 2
  /\ \E c \in SelectedCells : \E k \in 1..4 :
       getNeighborKeys(c[1], c[2])[k] \in visitedSet

\* C2 (as claimed): every candidate and every returned cell is unvisited,
\* lies outside baseSquare and inside the 5-layer search area.
C2_CandidatesOutsideBase ==
  opc \in {"scored", "done"} =>
    \A c \in CandidateCells \cup SelectedCells :
      /\ c \notin visitedSet
      /\ c \notin BaseCells(base)
      /\ c \in SearchCells

\* C3: the holes are exactly the maximal 4-connected components of the
\* unvisited cells of the search area; they partition those cells.
C3_HolesPartition ==
  opc \in {"holes", "scored", "done"} =>
    /\ \A c \in UnvisitedInBounds :
         Cardinality({k \in 1..Len(holes) : c \in HoleCells(k)}) = 1
    /\ \A k \in 1..Len(holes) :
         /\ holes[k].squares # <<>>
         /\ holes[k].size = Cardinality(HoleCells(k))
         /\ HoleCells(k) \subseteq UnvisitedInBounds
         /\ HoleCells(k) = Closure({holes[k].squares[1]}, UnvisitedInBounds)

C3_Witness ==
  /\ opc = "holes" /\ Len(holes) >= 2
  /\ \E k \in 1..Len(holes) : holes[k].size >= 3


\* ========================================================================
\* TSP solver (tsp-solver.js)
\* ========================================================================

\* floor(sqrt(v)) for 2^25 <= v < 2^30: four steps of Newton's iteration
\* from 16000 come within one of it
newtonStep(v, r) == (r + v \div r) \div 2
nearestRoot(v, r) ==
  IF r * r > v THEN r - 1 ELSE IF (r + 1) * (r + 1) <= v THEN r + 1 ELSE r
ISqrt(v) ==
  nearestRoot(v, newtonStep(v, newtonStep(v, newtonStep(v, newtonStep(v, 16000)))))

\* A length is a record [mm |-> whole millimetres, um |-> further
\* micrometres, 0..999, slack |-> the micrometres by which it may differ from
\* the length the code measures because an end of it is a rounded
\* position]. The points of a route are at most 3900 units from the origin
\* in latitude and in longitude; there the lengths are those of
\* turf.distance to within 3 micrometres and the slack. With u the step in
\* radians, s = y1 + y2 and phi = 51.7 degrees, the haversine formula gives
\*   d = R * u * sqrt(dy^2 + c * (1 + u^2 (2 dy^2 - (1 - c) dx^2) / 12) * dx^2)
\*   c = cos(lat1) cos(lat2)
\*     = cos^2 phi - (sin 2phi) u s / 2 - (cos 2phi) u^2 s^2 / 4
\*       + (sin 2phi) u^3 s^3 / 12 - u^2 dy^2 / 4
\* and the numbers below are its coefficients in binary fractions.
CosSquared == 824904407        \* cos^2 phi, in units of 2^-31
CosSquaredLow == 12911         \*   and its next 15 binary digits
Linear == 14934131             \* (sin 2phi) u / 2, in units of 2^-61
LinearLow == 19704             \*   and its next 15 binary digits
Quadratic == 406949            \* -(cos 2phi) u^2 / 4, in units of 2^-95
Separation == 1756000          \* u^2 / 4, in units of 2^-95
Cubic == 130258                \* (sin 2phi) u^3 / 12, in units of 2^-129
Curvature == 585333            \* u^2 / 12, in units of 2^-95
UnitLength == 3931             \* R u / sqrt(2) in millimetres per whole unit
UnitLengthLow == 11133         \*   its next 15 binary digits
UnitLengthLower == 12013       \*   and the 15 after those
UnitLength17 == 515288565      \* R u / sqrt(2), in units of 2^-17 mm

\* the micrometres by which a rounded position can lie beside the position
\* the code computes
PositionSlack == 200

PowersOf2 == <<1, 2, 4, 8, 16, 32, 64, 128, 256, 512, 1024, 2048, 4096, 8192,
               16384, 32768, 65536, 131072, 262144, 524288, 1048576, 2097152,
               4194304, 8388608, 16777216, 33554432, 67108864, 134217728,
               268435456, 536870912, 1073741824>>
power2(n) == PowersOf2[n + 1]

\* the number of binary digits of n, 0 <= n < 2^30
digitsOf(n) ==
  IF n < 32768
    THEN IF n < 128
           THEN IF n < 8
                  THEN (IF n < 2 THEN n ELSE IF n < 4 THEN 2 ELSE 3)
                  ELSE (IF n < 16 THEN 4 ELSE IF n < 32 THEN 5
                        ELSE IF n < 64 THEN 6 ELSE 7)
           ELSE IF n < 2048
                  THEN (IF n < 256 THEN 8 ELSE IF n < 512 THEN 9
                        ELSE IF n < 1024 THEN 10 ELSE 11)
                  ELSE (IF n < 4096 THEN 12 ELSE IF n < 8192 THEN 13
                        ELSE IF n < 16384 THEN 14 ELSE 15)
    ELSE IF n < 8388608
           THEN IF n < 524288
                  THEN (IF n < 65536 THEN 16 ELSE IF n < 131072 THEN 17
                        ELSE IF n < 262144 THEN 18 ELSE 19)
                  ELSE (IF n < 1048576 THEN 20 ELSE IF n < 2097152 THEN 21
                        ELSE IF n < 4194304 THEN 22 ELSE 23)
           ELSE IF n < 134217728
                  THEN (IF n < 16777216 THEN 24 ELSE IF n < 33554432 THEN 25
                        ELSE IF n < 67108864 THEN 26 ELSE 27)
                  ELSE (IF n < 268435456 THEN 28 ELSE IF n < 536870912 THEN 29
                        ELSE 30)

\* the middle digits of a * b for 0 <= a, b < 2^30
midProduct(a, b) ==
  (a \div 32768) * (b % 32768) + (a % 32768) * (b \div 32768)
    + ((a % 32768) * (b % 32768)) \div 32768
\* floor(a * b / 2^30), and the 15 binary digits after it
mulShift(a, b) == (a \div 32768) * (b \div 32768) + midProduct(a, b) \div 32768
mulFrac(a, b) == midProduct(a, b) % 32768

\* a number in two parts, hi and 15 further binary digits lo
carried(i, f) == [hi |-> i + f \div 32768, lo |-> f % 32768]

\* a * b / 2^30 in two parts
product(a, b) == carried((a \div 32768) * (b \div 32768), midProduct(a, b))

\* x / p in two parts, p a power of two
shifted(x, p) ==
  [hi |-> x.hi \div p, lo |-> ((x.hi % p) * 32768 + x.lo) \div p]

\* the terms of odd order in s, for a = |s| in steps: the linear term in two
\* parts, less the cubic term
linearTermFrom(high, low) == carried(high.hi, high.lo + low)
linearTerm(a) == linearTermFrom(product(a, Linear), mulShift(a, LinearLow))
oddTerms(lin, cub) == [hi |-> lin.hi - cub.hi, lo |-> lin.lo - cub.lo]
cubeOf(a) == mulShift(mulShift(a, a), a)
oddOf(a) == oddTerms(linearTerm(a), shifted(product(cubeOf(a), Cubic), 256))

cosProductFrom(sign, odd, even, sep) ==
  carried(CosSquared - sign * odd.hi + even.hi - sep.hi,
          CosSquaredLow - sign * odd.lo + even.lo - sep.lo)
cosProductOf(sign, a, d) ==
  cosProductFrom(sign, oddOf(a),
                 shifted(product(mulShift(a, a), Quadratic), 16),
                 shifted(product(mulShift(d, d), Separation), 16))

\* Math.cos(lat1) * Math.cos(lat2) in units of 2^-31
cosProduct(y1, y2) ==
  cosProductOf(IF y1 + y2 >= 0 THEN 1 ELSE -1, Abs(y1 + y2), Abs(y1 - y2))

\* the terms of the next order of the haversine: c (1 + u^2 q / 12) with
\* q = 2 dy^2 - (1 - c) dx^2, the squares in units of 2^32 steps
nextOrder(c, dy2, dx2) ==
  2 * dy2 - mulShift(1073741824 - (c.hi + 1) \div 2, dx2)
adjustment(c, q) == mulShift(Abs(q) * 8, mulShift(c.hi, Curvature))
adjusted(c, sign, adj) ==
  carried(c.hi + sign * (adj \div 64), c.lo + sign * ((adj % 64) * 512))
cosEffectiveOf(c, q) == adjusted(c, IF q >= 0 THEN 1 ELSE -1, adjustment(c, q))
cosEffective(c, dy2, dx2) == cosEffectiveOf(c, nextOrder(c, dy2, dx2))

\* The differences are scaled by 2^j, the largest that keeps them below 2^29
shiftOf(m) == 29 - digitsOf(m)

\* c * X in two parts, X in two parts
cosTimesFrom(high, low, lower) == carried(high.hi, high.lo + low + lower)
cosTimes(c, X) ==
  cosTimesFrom(product(c.hi, X.hi), mulShift(c.lo, X.hi), mulShift(c.hi, X.lo))

\* 2 * (dy^2 + c dx^2) for the scaled differences, in units of 2^30, c in
\* units of 2^-31, in two parts
radicandFrom(Y, CX) == carried(2 * Y.hi + CX.hi, 2 * Y.lo + CX.lo)
radicandOf(c, dy, dx) == radicandFrom(product(dy, dy), cosTimes(c, product(dx, dx)))
radicand(y1, y2, dy, dx, scale) ==
  radicandOf(cosEffective(cosProduct(y1, y2), mulShift(dy, dy) \div 4,
                          mulShift(dx, dx) \div 4),
             dy * scale, dx * scale)

\* 28 binary digits of sqrt(T) after the root r, from the remainder x of T
\* in units of 2^-14 and D = 2 r + 1
rootDigitsFrom(q1, r1, D) ==
  q1 * 16384 + (r1 * 16384) \div D + (q1 * (16384 - q1)) \div D
rootDigits(x, D) == rootDigitsFrom(x \div D, x % D, D)
rootFraction(T, r) == rootDigits((T.hi - r * r) * 16384 + T.lo \div 2, 2 * r + 1)

\* (r + digits / 2^28) * R u / sqrt(2), in millimetres and 15 binary digits
scaledParts(r, low, e) ==
  carried(UnitLength * r + low \div 32768 + e \div 131072,
          (low % 32768) + (UnitLengthLower * r) \div 32768 + (e % 131072) \div 4)
scaledRootOf(T, r) ==
  scaledParts(r, UnitLengthLow * r, mulShift(rootFraction(T, r) * 4, UnitLength17))
scaledRoot(T) == scaledRootOf(T, ISqrt(T.hi))

\* 20 binary digits of v / 2^k after the millimetres, rest the remainder of
\* v.hi
digits20(rest, low, k) ==
  IF k >= 20 THEN rest \div power2(k - 20)
  ELSE IF k >= 5 THEN rest * power2(20 - k) + low \div power2(k - 5)
  ELSE rest * power2(20 - k) + low * power2(5 - k)
\* v / 2^k as millimetres and micrometres
lengthOf(v, k, slack) ==
  [mm |-> v.hi \div power2(k),
   um |-> (digits20(v.hi % power2(k), v.lo, k) * 1000) \div 1048576,
   slack |-> slack]
scaledLength(T, k, slack) == lengthOf(scaledRoot(T), k, slack)

\* A position the code computes is rounded to a step beside the whole and
\* half units, so that a point of whole or half units is one the code has to
\* the last digit.
slackOf(p) ==
  IF p.lat % HalfUnit = 0 /\ p.lon % HalfUnit = 0 THEN 0 ELSE PositionSlack

\* turf.distance(a, b)
distanceAt(y1, y2, dy, dx, j, slack) ==
  scaledLength(radicand(y1, y2, dy, dx, power2(j)), j + 1, slack)
distanceOf(y1, y2, dy, dx, slack) ==
  distanceAt(y1, y2, dy, dx, shiftOf(IF dy > dx THEN dy ELSE dx), slack)
distance(a, b) ==
  IF a.lat = b.lat /\ a.lon = b.lon THEN ZeroLength
  ELSE distanceOf(a.lat, b.lat, Abs(a.lat - b.lat), Abs(a.lon - b.lon),
                  slackOf(a) + slackOf(b))

\* the sum of two lengths
plus(x, y) ==
  [mm |-> x.mm + y.mm + (x.um + y.um) \div 1000, um |-> (x.um + y.um) % 1000,
   slack |-> x.slack + y.slack]

\* y - x in micrometres, for lengths less than a kilometre apart, and a
\* million of them beyond
micrometresBetween(x, y) ==
  IF y.mm - x.mm > 1000000 THEN 1000000000
  ELSE IF y.mm - x.mm < -1000000 THEN -1000000000
  ELSE (y.mm - x.mm) * 1000 + y.um - x.um

\* calculateRouteDistance: turf.length of the line through the route
RECURSIVE calculateRouteDistance(_)
calculateRouteDistance(route) ==
  IF Len(route) < 2 THEN ZeroLength
  ELSE plus(distance(route[1], route[2]), calculateRouteDistance(Tail(route)))

\* The code compares lengths as doubles. The lengths of the model are those
\* doubles to within 3 micrometres for each leg measured, and the slack of
\* the legs that end in rounded positions, so that of two sums of legs the
\* one is less for certain when it is less by more than that; within it the
\* digits beyond decide, either way.
tolerance(legs) == 3 * legs
surelyLess(x, y, legs) ==
  micrometresBetween(x, y) > tolerance(legs) + x.slack + y.slack
undecided(x, y, legs) ==
  /\ micrometresBetween(x, y) <= tolerance(legs) + x.slack + y.slack
  /\ micrometresBetween(y, x) <= tolerance(legs) + x.slack + y.slack

\* x < y - threshold for a threshold the code gives in kilometres, in
\* micrometres here: whether it holds for certain, and whether the digits
\* beyond the tolerance decide it
surelyBelow(x, y, threshold, legs) ==
  micrometresBetween(x, y) - threshold > tolerance(legs) + x.slack + y.slack
undecidedBelow(x, y, threshold, legs) ==
  /\ micrometresBetween(x, y) - threshold <= tolerance(legs) + x.slack + y.slack
  /\ threshold - micrometresBetween(x, y) <= tolerance(legs) + x.slack + y.slack

\* the distances turf.nearestPoint measures from current
distancesFrom(current, unvisited) ==
  SubSeq([m \in 1..Len(unvisited) |-> distance(current, unvisited[m])],
         1, Len(unvisited))

\* the indices that can be the first of least distance: no distance is less
\* for certain, and no earlier point is the same point
firstLeast(ds, unvisited) ==
  {k \in 1..Len(ds) :
     /\ \A m \in 1..Len(ds) : ~surelyLess(ds[m], ds[k], 2)
     /\ \A m \in 1..(k - 1) :
          ~(unvisited[m].lat = unvisited[k].lat /\ unvisited[m].lon = unvisited[k].lon)}

\* turf.nearestPoint(current, unvisited): the first index of least
\* distance; the indices it can be
nearestIndex(current, unvisited) ==
  firstLeast(distancesFrom(current, unvisited), unvisited)

RemoveAt(s, k) == SubSeq(s, 1, k - 1) \o SubSeq(s, k + 1, Len(s))

RECURSIVE nnLoop(_, _, _)
nnLoop(unvisited, route, current) ==
  IF Len(unvisited) = 0 THEN {route}
  ELSE UNION {nnLoop(RemoveAt(unvisited, k), Append(route, unvisited[k]),
                     unvisited[k]) :
                k \in nearestIndex(current, unvisited)}

\* nearestNeighbor(points, startPoint, roundtrip): the routes it can return
nearestNeighbor(pts, start, rt) ==
  IF Len(pts) = 0 THEN {<<start>>}
  ELSE IF Len(pts) = 1
    THEN {IF rt THEN <<start, pts[1], start>> ELSE <<start, pts[1]>>}
  ELSE {IF rt THEN Append(route, start) ELSE route :
          route \in nnLoop(pts, <<start>>, start)}

Reverse(s) == [k \in 1..Len(s) |-> s[Len(s) + 1 - k]]

\* Mutant: the reversal runs through the end of the route
reverseSegment_ToEnd(route, i, j) ==
  SubSeq(route, 1, i) \o Reverse(SubSeq(route, i + 1, Len(route)))

\* route with the elements at 0-based positions i..j reversed
reverseSegment(route, i, j) ==
  SubSeq(route, 1, i) \o Reverse(SubSeq(route, i + 1, j + 1))
    \o SubSeq(route, j + 2, Len(route))

\* Mutant: the exchange is made when it lengthens the route
improves_Flipped(newCost, currentCost) == surelyLess(currentCost, newCost, 4)

\* if (newCost < currentCost): the costs differ in two legs each
improves(newCost, currentCost) == surelyLess(newCost, currentCost, 4)

\* Both costs are sums of floating-point distances. Where the sums are the
\* same to within the tolerance (the same legs added in another order or
\* run the other way, or legs of all but the same length), the last digits
\* of the doubles decide the comparison, either way; an exchange made on
\* such a comparison leads to a route the run has not had before, the sums
\* of the way back being the same two numbers.
roundingDecides(newCost, currentCost, route, seen) ==
  undecided(newCost, currentCost, 4) /\ route \notin seen

\* The inner for loop of twoOptOptimize for one i (0-based i, j), reversing
\* in place: the states in which the loop can end
RECURSIVE twoOptInner(_, _, _, _, _)
twoOptInner(route, i, j, improved, seen) ==
  IF ~(j < Len(route) - 1)
    THEN {[route |-> route, improved |-> improved, seen |-> seen]}
  ELSE
    LET a == route[i]
        b == route[i + 1]
        c == route[j + 1]
        d == route[j + 2]
        currentCost == plus(distance(a, b), distance(c, d))
        newCost == plus(distance(a, c), distance(b, d))
        reversed == reverseSegment(route, i, j)
    IN IF improves(newCost, currentCost)
         THEN twoOptInner(reversed, i, j + 1, TRUE, seen \cup {reversed})
       ELSE IF roundingDecides(newCost, currentCost, reversed, seen)
         THEN twoOptInner(reversed, i, j + 1, TRUE, seen \cup {reversed})
                \cup twoOptInner(route, i, j + 1, improved, seen)
       ELSE twoOptInner(route, i, j + 1, improved, seen)

\* One pass of the two nested for loops of twoOptOptimize
RECURSIVE twoOptPass(_, _, _, _)
twoOptPass(route, i, improved, seen) ==
  IF ~(i < Len(route) - 2)
    THEN {[route |-> route, improved |-> improved, seen |-> seen]}
  ELSE UNION {twoOptPass(inner.route, i + 1, inner.improved, inner.seen) :
                inner \in twoOptInner(route, i, i + 1, improved, seen)}

\* Mutant: the passes are not counted against maxIterations
keepsOptimizing_NoCap(improved, iters, maxIterations) == improved

\* while (improved && iterations < maxIterations)
keepsOptimizing(improved, iters, maxIterations) ==
  improved /\ iters < maxIterations

RECURSIVE twoOptLoop(_, _, _, _, _)
twoOptLoop(route, improved, iters, maxIterations, seen) ==
  IF ~keepsOptimizing(improved, iters, maxIterations)
    THEN {[route |-> route, iterations |-> iters, improved |-> improved]}
  ELSE UNION {twoOptLoop(pass.route, pass.improved, iters + 1, maxIterations,
                         pass.seen) :
                pass \in twoOptPass(route, 1, FALSE, seen)}

\* twoOptOptimize(route, maxIterations) with its pass count: the results
\* the call can have
twoOptRun(route, maxIterations) ==
  IF Len(route) < 4 THEN {[route |-> route, iterations |-> 0, improved |-> FALSE]}
  ELSE twoOptLoop(route, TRUE, 0, maxIterations, {route})

twoOptOptimize(route, maxIterations) ==
  {run.route : run \in twoOptRun(route, maxIterations)}

\* The earlier twoOptOptimize (part_008:70-105): each pass applies the first
\* reversal that shortens the whole route and breaks out of both for loops.
interiorPairs(route) ==
  {p \in (1..(Len(route) - 3)) \X (2..(Len(route) - 2)) : p[1] < p[2]}

\* the order of the two for loops
pairBefore(p, q) == p[1] < q[1] \/ (p[1] = q[1] /\ p[2] < q[2])

\* The pairs at which the two for loops can break, <<>> standing for a pass
\* that ends without a break: the first pair whose reversal is shorter, or
\* a pair before it at which rounding decides
firstOf(better) ==
  IF better = {} THEN <<>>
  ELSE CHOOSE p \in better : \A q \in better : p = q \/ pairBefore(p, q)
pairsUpTo(first, better, rounded) ==
  {first} \cup {p \in rounded : first = <<>> \/ pairBefore(p, first)}
pairsAmong(route, newDistances, currentDistance, seen) ==
  pairsUpTo(firstOf({p \in DOMAIN newDistances :
                       improves(newDistances[p], currentDistance)}),
            {p \in DOMAIN newDistances : improves(newDistances[p], currentDistance)},
            {p \in DOMAIN newDistances :
               roundingDecides(newDistances[p], currentDistance,
                               reverseSegment(route, p[1], p[2]), seen)})
firstImprovingPair(route, currentDistance, seen) ==
  pairsAmong(route,
             [p \in interiorPairs(route) |->
                calculateRouteDistance(reverseSegment(route, p[1], p[2]))],
             currentDistance, seen)

RECURSIVE twoOptLoopFirst(_, _, _, _, _)
twoOptLoopFirst(route, improved, iters, maxIterations, seen) ==
  IF ~keepsOptimizing(improved, iters, maxIterations)
    THEN {[route |-> route, iterations |-> iters, improved |-> improved]}
  ELSE UNION {IF p = <<>>
                THEN twoOptLoopFirst(route, FALSE, iters + 1, maxIterations, seen)
                ELSE twoOptLoopFirst(reverseSegment(route, p[1], p[2]), TRUE,
                                     iters + 1, maxIterations,
                                     seen \cup {reverseSegment(route, p[1], p[2])}) :
                p \in firstImprovingPair(route, calculateRouteDistance(route), seen)}

twoOptRunFirst(route, maxIterations) ==
  IF Len(route) < 4 THEN {[route |-> route, iterations |-> 0, improved |-> FALSE]}
  ELSE twoOptLoopFirst(route, TRUE, 0, maxIterations, {route})

Solvers == {"in-place", "first-improvement"}

twoOptRunOf(rev, route, maxIterations) ==
  IF rev = "first-improvement" THEN twoOptRunFirst(route, maxIterations)
  ELSE twoOptRun(route, maxIterations)

DefaultMaxIterations == 100

\* solveTSP(points, startPoint, roundtrip, optimize = true): the results
\* the call can have
solveTSP(pts, start, rt) ==
  LET routes == UNION {IF Len(pts) >= 3 THEN twoOptOptimize(nn, DefaultMaxIterations)
                       ELSE {nn} :
                         nn \in nearestNeighbor(pts, start, rt)}
  IN {[route |-> route, distance |-> calculateRouteDistance(route)] :
        route \in routes}

\* ---- inputs of the TSP model ----
MaxPoints == 3        \* at most MaxPoints points to visit

GridCoords == {0, 1000, 2500}
\* maxIterations: the default of solveTSP's call, and two caps that passes
\* reach
IterationCaps == {1, 2, DefaultMaxIterations}
\* Nine points on a bent grid: no three of them lie on one line, so that no
\* comparison of the solver is between lengths that differ by less than the
\* metric resolves
GridPoints == {unitPoint(a + (b * b) \div 100000, b + (a * a) \div 50000) :
                 a \in GridCoords, b \in GridCoords}
\* The start points: one of the points to visit and a point to their east
StartChoices == {unitPoint(0, 0), unitPoint(1000, 3000)}
\* The point lists: any set of grid points, ordered south-west to north-east
\* or the reverse
Rank(p) == (p.lat \div Unit) * 10 + p.lon \div Unit
MonotoneSeqs(S, n) ==
  {q \in [1..n -> S] : \/ \A a \in 1..(n - 1) : Rank(q[a]) < Rank(q[a + 1])
                       \/ \A a \in 1..(n - 1) : Rank(q[a]) > Rank(q[a + 1])}

InitTsp ==
  /\ ExtIdle
  /\ tpc = "start"
  /\ \E n \in 0..MaxPoints : points \in MonotoneSeqs(GridPoints, n)
  /\ startPoint \in StartChoices
  /\ roundtrip \in BOOLEAN
  /\ nnRoute = <<>> /\ optRoute = <<>> /\ iterations = 0
  /\ solver = "none" /\ iterationCap = 0
  /\ OptimizerIdle /\ RouterIdle /\ RefinementIdle /\ FetcherIdle

\* let route = nearestNeighbor(points, startPoint, roundtrip)
NearestNeighbor ==
  /\ tpc = "start"
  /\ nnRoute' \in nearestNeighbor(points, startPoint, roundtrip)
  /\ tpc' = "nn"
  /\ UNCHANGED <<points, startPoint, roundtrip, optRoute, iterations, solver,
                 iterationCap, optVars, rtVars, refVars, fetchVars, partVars, extVars>>

\* if (optimize && points.length >= 3) route = twoOptOptimize(route)
TwoOptOptimize ==
  /\ tpc = "nn"
  /\ \E rev \in Solvers, cap \in IterationCaps :
       \E run \in IF Len(points) >= 3 THEN twoOptRunOf(rev, nnRoute, cap)
                  ELSE {[route |-> nnRoute, iterations |-> 0, improved |-> FALSE]} :
          /\ optRoute' = run.route
          /\ iterations' = run.iterations
          /\ solver' = rev
          /\ iterationCap' = cap
  /\ tpc' = "done"
  /\ UNCHANGED <<points, startPoint, roundtrip, nnRoute, optVars, rtVars, refVars, fetchVars, partVars, extVars>>

NextTsp == NearestNeighbor \/ TwoOptOptimize

SpecTsp == InitTsp /\ [][NextTsp]_vars

\* C4: for a route of at least 4 points, the route returned by 2-opt is no
\* longer than the nearest-neighbour route it was started from (not longer
\* for certain: not by more than the tolerance of the lengths compared).
C4_TwoOptNotLonger ==
  (tpc = "done" /\ Len(nnRoute) >= 4) =>
    ~surelyLess(calculateRouteDistance(nnRoute), calculateRouteDistance(optRoute), 4)

C4_Witness ==
  /\ tpc = "done" /\ Len(nnRoute) >= 4
  /\ surelyLess(calculateRouteDistance(optRoute), calculateRouteDistance(nnRoute), 4)

\* no reversal of a segment between interior positions gives a route that
\* is shorter for certain
noneShorterThan(route, currentDistance) ==
  \A p \in interiorPairs(route) :
    ~surelyLess(calculateRouteDistance(reverseSegment(route, p[1], p[2])),
                currentDistance, 4)
noShorterReversal(route) == noneShorterThan(route, calculateRouteDistance(route))

\* C22: twoOptOptimize makes at most maxIterations passes, and when it stops
\* with fewer passes, no reversal of a segment between interior positions
\* gives a route that is shorter for certain.
C22_CappedOrLocalOptimum ==
  tpc = "done" =>
    /\ iterations <= iterationCap
    /\ iterations < iterationCap => noShorterReversal(optRoute)

\* C22 witness: an improving pass and a last pass without improvement, fewer
\* passes than the cap
C22_Witness ==
  /\ tpc = "done" /\ iterations >= 2 /\ iterations < iterationCap
  /\ optRoute # nnRoute /\ interiorPairs(optRoute) # {}

\* C22, the other way to stop: the cap ends the loop after an improving pass
C22_WitnessCapped ==
  /\ tpc = "done" /\ iterations = iterationCap /\ optRoute # nnRoute
  /\ \E p \in interiorPairs(optRoute) :
       surelyLess(calculateRouteDistance(reverseSegment(optRoute, p[1], p[2])),
                  calculateRouteDistance(optRoute), 4)

occurrences(route, x) == Cardinality({k \in 1..Len(route) : route[k] = x})

\* C27: the route twoOptOptimize returns is a permutation of the route it
\* was given, with the same first and the same last element.
C27_PermutationKeepsEnds ==
  tpc = "done" =>
    /\ Len(optRoute) = Len(nnRoute)
    /\ \A k \in 1..Len(nnRoute) :
         occurrences(optRoute, nnRoute[k]) = occurrences(nnRoute, nnRoute[k])
    /\ optRoute[1] = nnRoute[1]
    /\ optRoute[Len(optRoute)] = nnRoute[Len(nnRoute)]

\* C27 witness: a round trip that 2-opt reordered; the start point is still
\* first and last
C27_Witness ==
  /\ tpc = "done" /\ roundtrip /\ optRoute # nnRoute
  /\ optRoute[1] = startPoint /\ optRoute[Len(optRoute)] = startPoint


\* ========================================================================
\* calculateRoute (router.js, five revisions) with routing-strategies.js
\*   "strategies"    src/unnamed/part_008:286-470
\*   "latest"        src/unnamed/part_009:104-388
\*   "single-phase"  src/unnamed/part_009:557-661
\*   "sequential"    src/unnamed/part_010:113-371
\*   "inline"        src/unnamed/part_010:575-755
\* ========================================================================
Revisions == {"strategies", "latest", "single-phase", "sequential", "inline"}

COORD_TOLERANCE == 2 * Unit      \* 0.0001 degrees

\* by how many steps a coordinate of the code may differ from the step that
\* stands for it: not at all for a whole or a half unit (a corner, a centre,
\* a point the user gave), PositionMargin for a position turf computed
PositionMargin == 3
roundedBy(c) == IF c % HalfUnit = 0 THEN 0 ELSE PositionMargin

\* coordsMatch(a, b): Math.abs(a - b) < tolerance on doubles. The values it
\* can have: the difference of two doubles that are 0.0001 degrees apart is
\* a digit more or less than the double 0.0001, so there, and within the
\* margin of computed positions, the last digits decide
coordsMatch(a, b) ==
  IF Abs(Abs(a - b) - COORD_TOLERANCE) <= roundedBy(a) + roundedBy(b)
    THEN BOOLEAN
    ELSE {Abs(a - b) < COORD_TOLERANCE}

\* pointsMatch(p1, p2): the values it can have
pointsMatch(p1, p2) ==
  {x /\ y : x \in coordsMatch(p1.lat, p2.lat), y \in coordsMatch(p1.lon, p2.lon)}

\* array.find(predicate) over outcomes[k], the values the predicate can have
\* for element k: the indices find can stop at, 0 for undefined
firstHolding(outcomes) ==
  {k \in 1..Len(outcomes) :
     TRUE \in outcomes[k] /\ \A m \in 1..(k - 1) : FALSE \in outcomes[m]}
    \cup (IF \A m \in 1..Len(outcomes) : FALSE \in outcomes[m] THEN {0} ELSE {})

\* the sequences that take one element of each set of a sequence of sets
RECURSIVE choices(_)
choices(sets) ==
  IF sets = <<>> THEN {<<>>}
  ELSE {<<x>> \o rest : x \in Head(sets), rest \in choices(Tail(sets))}

\* An error of callBRouterAPI is one of two: "not mapped", the error made of
\* a response that is not ok (its message is "BRouter API error: ", status
\* and the text of the response, which for a point without map data holds
\* "not mapped in existing datafile"), and "other", any other (no route in
\* the answer, the network). The message with "ausserhalb des verfuegbaren
\* Kartenbereichs" that callBRouterAPI makes for the first is thrown inside
\* a try whose catch ignores it, and the message above is thrown after it.
\* The phrases isCoverageError looks for that the message of an error holds:
phrasesOf(error) == IF error = "not mapped" THEN {"not mapped"} ELSE {}

\* error.message.includes('nicht verfuegbaren Kartenbereichs') ||
\* error.message.includes('not mapped')
isCoverageError(error) ==
  \/ "nicht verfuegbaren Kartenbereichs" \in phrasesOf(error)
  \/ "not mapped" \in phrasesOf(error)

\* tryProfilesWithFallback: if (!isCoverageError(error)) break;
stopsProfileLoop(error) == ~isCoverageError(error)

\* profileFallbacks[bikeType] || []
profileFallbacks(rev, bike) ==
  CASE rev \in {"strategies", "single-phase", "inline"} ->
         (CASE bike = "trekking" ->
                 <<"fastbike", "trekking-ignore-cr", "trekking-noferries">>
            [] bike = "gravel" -> <<"trekking", "fastbike">>
            [] bike = "fastbike" -> <<"trekking", "fastbike-lowtraffic">>
            [] OTHER -> <<>>)
    [] rev = "sequential" ->
         (CASE bike = "trekking" ->
                 <<"fastbike", "trekking-ignore-cr", "trekking-noferries">>
            [] bike = "gravel" -> <<"trekking", "trekking-ignore-cr">>
            [] bike = "fastbike" -> <<"fastbike", "fastbike-lowtraffic">>
            [] OTHER -> <<>>)
    [] OTHER ->
         (CASE bike = "trekking" ->
                 <<"fastbike", "trekking-ignore-cr", "trekking-noferries">>
            [] bike = "hiking-mountain" -> <<"trekking", "trekking-ignore-cr">>
            [] bike = "fastbike" -> <<"fastbike", "fastbike-lowtraffic">>
            [] OTHER -> <<>>)

profilesToTry(rev, bike) == <<bike>> \o profileFallbacks(rev, bike)

\* The profile list a tier runs through: the minimal attempt is made with
\* the requested profile only
tierProfiles(rev, bike, t) ==
  IF t = "minimal" THEN <<bike>> ELSE profilesToTry(rev, bike)

\* "distance >= minDistance" for a distance the code has as a double and a
\* threshold given as a length: the values the test can have. Within the
\* tolerance of one leg the digits beyond decide.
thresholdLength(mm) == [mm |-> mm, um |-> 0, slack |-> 0]
keepsWaypoint(d, minDistance) ==
  IF surelyLess(minDistance, d, 1) THEN {TRUE}
  ELSE IF undecided(minDistance, d, 1) THEN BOOLEAN
  ELSE {FALSE}

\* simplifyWaypoints(waypoints, minDistance), minDistance in millimetres:
\* the lists it can return. The loop from index i on, with the threshold as
\* a length
RECURSIVE simplifyLoop(_, _, _, _, _)
simplifyLoop(waypoints, i, simplified, lastKept, threshold) ==
  IF ~(i < Len(waypoints) - 1) THEN {simplified}
  ELSE UNION {IF keeps
                THEN simplifyLoop(waypoints, i + 1,
                                  Append(simplified, waypoints[i + 1]),
                                  waypoints[i + 1], threshold)
                ELSE simplifyLoop(waypoints, i + 1, simplified, lastKept,
                                  threshold) :
              keeps \in keepsWaypoint(distance(lastKept, waypoints[i + 1]),
                                      threshold)}

simplifyWaypoints(waypoints, minDistance) ==
  IF Len(waypoints) <= 2 THEN {waypoints}
  ELSE {Append(simplified, waypoints[Len(waypoints)]) :
          simplified \in simplifyLoop(waypoints, 1, <<waypoints[1]>>,
                                      waypoints[1], thresholdLength(minDistance))}

\* SimplificationStrategy: the thresholds of its levels (0.5, 1.0 and
\* 1.5 km), in millimetres
levels == <<500000, 1000000, 1500000>>

hasMoreLevels(level) == level < Len(levels) - 1

\* nextLevel().waypoints once currentLevel has been advanced to level: the
\* lists it can be
levelWaypoints(originalWaypoints, level) ==
  simplifyWaypoints(originalWaypoints, levels[level + 1])

\* simplifyWaypoints of the inline revision (part_010:535-562) measures
\* with an earth radius of 6371 km where turf takes 6371.0088 km: its
\* distance is at least minDistance when turf's is at least minDistance
\* times 6371.0088 / 6371. The thresholds 0.5, 1.0 and 1.5 km as lengths
\* of turf, to the micrometre:
inlineLevels ==
  <<[mm |-> 500000, um |-> 691, slack |-> 0],
    [mm |-> 1000001, um |-> 381, slack |-> 0],
    [mm |-> 1500002, um |-> 72, slack |-> 0]>>

RECURSIVE inlineSimplifyLoop(_, _, _, _, _)
inlineSimplifyLoop(waypoints, i, simplified, lastKept, threshold) ==
  IF ~(i < Len(waypoints) - 1) THEN {simplified}
  ELSE UNION {IF keeps
                THEN inlineSimplifyLoop(waypoints, i + 1,
                                        Append(simplified, waypoints[i + 1]),
                                        waypoints[i + 1], threshold)
                ELSE inlineSimplifyLoop(waypoints, i + 1, simplified, lastKept,
                                        threshold) :
              keeps \in keepsWaypoint(distance(lastKept, waypoints[i + 1]),
                                      threshold)}

\* the lists it can return at a level
inlineSimplifyWaypoints(waypoints, level) ==
  IF Len(waypoints) <= 2 THEN {waypoints}
  ELSE {Append(simplified, waypoints[Len(waypoints)]) :
          simplified \in inlineSimplifyLoop(waypoints, 1, <<waypoints[1]>>,
                                            waypoints[1], inlineLevels[level + 1])}

\* createMinimalWaypoints(waypoints)
RECURSIVE minimalLoop(_, _, _, _)
minimalLoop(waypoints, i, step, minimal) ==
  IF ~(i < Len(waypoints) - 1) THEN minimal
  ELSE minimalLoop(waypoints, i + step, step, Append(minimal, waypoints[i + 1]))

\* Mutant: the step is rounded down, not up
createMinimalWaypoints_FloorStep(waypoints) ==
  IF Len(waypoints) <= 3 THEN waypoints
  ELSE LET n == Len(waypoints)
           m == Min2(8, n - 2)
           step == (n - 2) \div m
       IN Append(minimalLoop(waypoints, step, step, <<waypoints[1]>>), waypoints[n])

createMinimalWaypoints(waypoints) ==
  IF Len(waypoints) <= 3 THEN waypoints
  ELSE LET n == Len(waypoints)
           m == Min2(8, n - 2)
           step == (n - 2 + m - 1) \div m
       IN Append(minimalLoop(waypoints, step, step, <<waypoints[1]>>), waypoints[n])

\* ------------------------------------------------------------------------
\* Waypoint placement inside one cell (waypoint-optimizer.js, second
\* revision). A position of a road is <<x, y>> in whole units, x the
\* longitude and y the latitude, as in GeoJSON; a road is a straight line
\* [a, b] between two different positions. Bounds are <<south, west, north,
\* east>> in whole units. A point turf computes is [lat, lon] in steps, the
\* step nearest to the point of the code.
\* ------------------------------------------------------------------------
CellSpan == 120       \* the side of a cell, 0.006 degrees

\* the square extractProposedSquares makes of a layer: centre and bounds,
\* for a centre given in whole units
squareAt(lat, lon, gridCoords) ==
  [lat |-> lat * Unit, lon |-> lon * Unit, gridCoords |-> gridCoords,
   bounds |-> <<lat - CellSpan \div 2, lon - CellSpan \div 2,
                lat + CellSpan \div 2, lon + CellSpan \div 2>>]

\* getBoundsCenter(square)
squareCenter(square) ==
  [lat |-> (square.bounds[1] + square.bounds[3]) * HalfUnit,
   lon |-> (square.bounds[2] + square.bounds[4]) * HalfUnit]

\* ---- the doubles of turf, as binary fractions ----
\* A real is <<m, e>> and stands for m * 2^e, with 2^28 <= |m| < 2^29 or
\* m = 0: 28 binary digits of a double, which is what the positions below
\* need to come out at the nearest step.
sgn(v) == IF v < 0 THEN -1 ELSE 1

digits31(n) == IF n < 1073741824 THEN digitsOf(n) ELSE 31

normWith(m, e, d) ==
  IF d <= 29 THEN <<m * power2(29 - d), e - (29 - d)>>
  ELSE <<sgn(m) * (Abs(m) \div power2(d - 29)), e + (d - 29)>>

norm(m, e) == IF m = 0 THEN <<0, 0>> ELSE normWith(m, e, digits31(Abs(m)))

real(n) == norm(n, 0)

times(x, y) ==
  IF x[1] = 0 \/ y[1] = 0 THEN <<0, 0>>
  ELSE norm(sgn(x[1]) * sgn(y[1]) * mulShift(Abs(x[1]), Abs(y[1])),
            x[2] + y[2] + 30)

squared(x) == times(x, x)

neg(x) == <<-x[1], x[2]>>

\* m / 2^k, toward zero
lowered(m, k) == IF k >= 31 THEN 0 ELSE sgn(m) * (Abs(m) \div power2(k))

plusr(x, y) ==
  IF x[1] = 0 THEN y
  ELSE IF y[1] = 0 THEN x
  ELSE IF x[2] >= y[2] THEN norm(x[1] + lowered(y[1], x[2] - y[2]), x[2])
  ELSE norm(y[1] + lowered(x[1], y[2] - x[2]), y[2])

minusr(x, y) == plusr(x, neg(y))

lessr(x, y) == minusr(x, y)[1] < 0

\* 28 binary digits of a / yh by long division, yh the leading digits of
\* the divisor
quotient28(a, yh) ==
  LET r0 == a % yh
      r1 == (r0 * 256) % yh
      r2 == (r1 * 256) % yh
  IN (((a \div yh) * 256 + (r0 * 256) \div yh) * 256 + (r1 * 256) \div yh) * 64
       + (r2 * 64) \div yh

\* the quotient, less what the last 6 digits yl of the divisor take off
overFrom(x, y, q, yh, yl) ==
  norm(sgn(x[1]) * sgn(y[1]) * (q - ((q \div 4096) * yl) \div (yh \div 64)),
       x[2] - y[2] - 28)

overWith(x, y, yh, yl) == overFrom(x, y, quotient28(Abs(x[1]), yh), yh, yl)

\* x / y for y # 0
over(x, y) ==
  IF x[1] = 0 THEN <<0, 0>>
  ELSE overWith(x, y, Abs(y[1]) \div 64, Abs(y[1]) % 64)

\* floor(x * 2^p)
scaledFloor(x, p) ==
  IF x[1] = 0 THEN 0
  ELSE IF x[2] + p >= 0 THEN x[1] * power2(x[2] + p)
  ELSE IF -(x[2] + p) >= 31 THEN (IF x[1] < 0 THEN -1 ELSE 0)
  ELSE x[1] \div power2(-(x[2] + p))

One == real(1)
Half == norm(1, -1)
Third == over(real(1), real(3))
Sixth == over(real(1), real(6))

\* The latitude of a point y steps north of the origin is phi + u y with
\* phi = 51.7 degrees and u the step in radians; its sine, cosine and
\* tangent to the second order in u y.
StepAngle == 15352078        \* u, in units of 2^-60
UnitAngle == 30704157        \* Unit * u, in units of 2^-45
Sin30 == 842647212           \* sin phi, in units of 2^-30
Cos30 == 665482668           \* cos phi, in units of 2^-30
Tan28 == 339898241           \* tan phi, in units of 2^-28
Sec28 == 698821278           \* 1 + tan^2 phi, in units of 2^-28
TanCurve28 == 884861214      \* tan phi (1 + tan^2 phi), in units of 2^-28

UNITANGLE == norm(UnitAngle, -45)

\* |u y| in units of 2^-30
angle30(y) == mulShift(Abs(y), StepAngle)

cosAt(w, s) ==
  norm(Cos30 - s * mulShift(Sin30, w) - mulShift(Cos30, mulShift(w, w)) \div 2,
       -30)
cosLat(y) == cosAt(angle30(y), sgn(y))

sinAt(w, s) ==
  norm(Sin30 + s * mulShift(Cos30, w) - mulShift(Sin30, mulShift(w, w)) \div 2,
       -30)
sinLat(y) == sinAt(angle30(y), sgn(y))

tanAt(w, s) ==
  norm(Tan28 + s * mulShift(Sec28, w) + mulShift(TanCurve28, mulShift(w, w)),
       -28)
tanLat(y) == tanAt(angle30(y), sgn(y))

\* ---- rationals to steps ----
\* A position the code computes is a double; the model has the step nearest
\* to it. Where the exact value is a whole or half unit and the code's is
\* beside it, the model takes the step beside it too.
beside(v, exact) == IF ~exact /\ v % HalfUnit = 0 THEN v + 1 ELSE v

\* n / d units in steps, for 0 < d < 2^23
stepsFrom(q, r, d) ==
  LET r1 == (r * 256) % d
      r2 == (r1 * 256) % d
  IN beside(q * 65536 + ((r * 256) \div d) * 256 + (r1 * 256) \div d
              + (IF 2 * r2 >= d THEN 1 ELSE 0),
            r2 = 0)
stepsOf(n, d) == stepsFrom(n \div d, n % d, d)

RECURSIVE Gcd(_, _)
Gcd(a, b) == IF b = 0 THEN a ELSE Gcd(b, a % b)

\* the fraction n / d as <<numerator, denominator>> in lowest terms, the
\* denominator positive
fractionBy(n, d, g) ==
  IF d < 0 THEN <<(-n) \div g, (-d) \div g>> ELSE <<n \div g, d \div g>>
fraction(n, d) == fractionBy(n, d, Gcd(Abs(n), Abs(d)))

notAbove(t, v) == t[1] * v[2] <= v[1] * t[2]
below(t, v) == t[1] * v[2] < v[1] * t[2]

\* ---- clipping a road to the bounds of a square ----
\* the parameters t (fractions) at which the line from r.a to r.b begins,
\* ends, or meets a side of the bounds
parametersAtX(r, v) ==
  IF r.b[1] = r.a[1] THEN {} ELSE {fraction(v - r.a[1], r.b[1] - r.a[1])}
parametersAtY(r, v) ==
  IF r.b[2] = r.a[2] THEN {} ELSE {fraction(v - r.a[2], r.b[2] - r.a[2])}
clipParameters(r, bounds) ==
  {<<0, 1>>, <<1, 1>>} \cup parametersAtX(r, bounds[2])
    \cup parametersAtX(r, bounds[4]) \cup parametersAtY(r, bounds[1])
    \cup parametersAtY(r, bounds[3])

\* whether the point of the road at t is within the bounds, the sides
\* counted in
pointWithin(r, t, bounds) ==
  /\ 0 <= t[1] /\ t[1] <= t[2]
  /\ bounds[2] * t[2] <= r.a[1] * t[2] + t[1] * (r.b[1] - r.a[1])
  /\ r.a[1] * t[2] + t[1] * (r.b[1] - r.a[1]) <= bounds[4] * t[2]
  /\ bounds[1] * t[2] <= r.a[2] * t[2] + t[1] * (r.b[2] - r.a[2])
  /\ r.a[2] * t[2] + t[1] * (r.b[2] - r.a[2]) <= bounds[3] * t[2]

parametersInside(r, bounds) ==
  {t \in clipParameters(r, bounds) : pointWithin(r, t, bounds)}

firstInside(inside) == CHOOSE t \in inside : \A v \in inside : notAbove(t, v)
lastInside(inside) == CHOOSE t \in inside : \A v \in inside : notAbove(v, t)

\* whether the position p lies within the bounds, the sides counted in
vertexInside(p, bounds) ==
  /\ bounds[2] <= p[1] /\ p[1] <= bounds[4]
  /\ bounds[1] <= p[2] /\ p[2] <= bounds[3]

\* whether the point of the road at t is a corner of the bounds
atCorner(r, t, bounds) ==
  /\ \/ r.a[1] * t[2] + t[1] * (r.b[1] - r.a[1]) = bounds[2] * t[2]
     \/ r.a[1] * t[2] + t[1] * (r.b[1] - r.a[1]) = bounds[4] * t[2]
  /\ \/ r.a[2] * t[2] + t[1] * (r.b[2] - r.a[2]) = bounds[1] * t[2]
     \/ r.a[2] * t[2] + t[1] * (r.b[2] - r.a[2]) = bounds[3] * t[2]

\* the point of the road at the parameter t
pointAt(r, t) ==
  [lat |-> r.a[2] * Unit + stepsOf(t[1] * (r.b[2] - r.a[2]), t[2]),
   lon |-> r.a[1] * Unit + stepsOf(t[1] * (r.b[1] - r.a[1]), t[2])]

\* turf.booleanIntersects(road, squarePoly): the values it can return. A
\* road with an end in the square, or one that meets a side of it between
\* the corners, intersects it; a road that only touches corners of the
\* square meets the outline where two of its sides end, and the last digits
\* of the doubles decide whether turf finds the point.
touchesInside(r, bounds, inside) ==
  \/ vertexInside(r.a, bounds) \/ vertexInside(r.b, bounds)
  \/ \E t \in inside : ~atCorner(r, t, bounds)
intersectsFrom(r, bounds, inside) ==
  IF inside = {} THEN {FALSE}
  ELSE IF touchesInside(r, bounds, inside) THEN {TRUE}
  ELSE BOOLEAN
booleanIntersects(r, square) ==
  intersectsFrom(r, square.bounds, parametersInside(r, square.bounds))

\* turf.bboxClip(road, turf.bbox(squarePoly)).geometry.coordinates: the
\* lists it can return, with the parameters of their ends. The part of the
\* line within the bounds runs from its first to its last parameter inside;
\* of a road that touches the square in one corner only, the digits of the
\* doubles decide whether a part is left.
clippedBetween(r, t0, t1) ==
  [coordinates |-> <<pointAt(r, t0), pointAt(r, t1)>>, from |-> t0, to |-> t1]
NoCoordinates == [coordinates |-> <<>>, from |-> <<0, 1>>, to |-> <<0, 1>>]
clipFrom(r, t0, t1) ==
  IF t0 = t1 /\ t0 # <<0, 1>> /\ t0 # <<1, 1>>
    THEN {NoCoordinates, clippedBetween(r, t0, t1)}
    ELSE {clippedBetween(r, t0, t1)}
clipInside(r, inside) ==
  IF inside = {} THEN {NoCoordinates}
  ELSE clipFrom(r, firstInside(inside), lastInside(inside))
bboxClip(r, square) == clipInside(r, parametersInside(r, square.bounds))

\* findRoadsInSquare(roads, square), from the k-th road on: the lists it can
\* return. A found road keeps the parameters of the ends of its clipped
\* line on the original.
foundRoad(r, clip) ==
  [original |-> r, clipped |-> clip.coordinates, from |-> clip.from,
   to |-> clip.to]
foundOf(r, square) ==
  UNION {IF hit THEN {IF clip.coordinates = <<>> THEN <<>>
                      ELSE <<foundRoad(r, clip)>> : clip \in bboxClip(r, square)}
         ELSE {<<>>} : hit \in booleanIntersects(r, square)}
RECURSIVE findRoadsFrom(_, _, _)
findRoadsFrom(roads, square, k) ==
  IF k > Len(roads) THEN {<<>>}
  ELSE {here \o rest : here \in foundOf(roads[k], square),
                       rest \in findRoadsFrom(roads, square, k + 1)}
findRoadsInSquare(roads, square) == findRoadsFrom(roads, square, 1)

\* turf.lineIntersect(r.clipped, s.clipped).features of two found roads: the
\* lists it can return. The lines cross where their parameters t and v lie
\* within the clipped parts. A crossing at an end of a clipped part is found
\* or missed by the last digits of the doubles, unless the end is an end of
\* both roads and the start of one of the clipped parts: there the
\* parameters of turf are 0 and 1 to the last digit.
atVertex(t) == t = <<0, 1>> \/ t = <<1, 1>>
crossingAt(r, s, t, v) ==
  IF below(t, r.from) \/ below(r.to, t) \/ below(v, s.from) \/ below(s.to, v)
    THEN {<<>>}
  ELSE IF /\ t = r.from \/ t = r.to \/ v = s.from \/ v = s.to
          /\ ~(atVertex(t) /\ atVertex(v) /\ ~(t = <<1, 1>> /\ v = <<1, 1>>))
    THEN {<<>>, <<pointAt(r.original, t)>>}
  ELSE {<<pointAt(r.original, t)>>}
crossingOf(r, s, den, tn, un) ==
  IF den = 0 \/ r.from = r.to \/ s.from = s.to THEN {<<>>}
  ELSE crossingAt(r, s, fraction(tn, den), fraction(un, den))
lineIntersect(r, s) ==
  crossingOf(r, s,
    (r.original.a[1] - r.original.b[1]) * (s.original.a[2] - s.original.b[2])
      - (r.original.a[2] - r.original.b[2]) * (s.original.a[1] - s.original.b[1]),
    (r.original.a[1] - s.original.a[1]) * (s.original.a[2] - s.original.b[2])
      - (r.original.a[2] - s.original.a[2]) * (s.original.a[1] - s.original.b[1]),
    (r.original.a[2] - r.original.b[2]) * (r.original.a[1] - s.original.a[1])
      - (r.original.a[1] - r.original.b[1]) * (r.original.a[2] - s.original.a[2]))

\* ---- turf.midpoint(coords[0], coords[coords.length - 1]) ----
\* turf takes the point half the distance along the great circle from the
\* first point. It lies north of the mean of the latitudes by
\* (u sin(2 lat) / 16) dx^2 and west or east of the mean of the longitudes
\* by (u tan(lat) / 4) dx dy, with u the step in radians.
BulgeRate == 933383          \* Unit * u sin(2 phi) / 16, in units of 2^-44
BulgeSlope == -25433         \* its change per unit of latitude, 2^-60
ShiftRate == 4859776         \* Unit * u tan(phi) / 4, in units of 2^-44
ShiftSlope == 571427         \* its change per unit of latitude, 2^-60

rateFor(rate, slope, units) ==
  IF Abs(units) < 2048 THEN rate + (slope * units) \div 65536
  ELSE rate + (slope * (units \div 2)) \div 32768
rateAt(rate, slope, ysum) == rateFor(rate, slope, ysum \div (2 * Unit))

midpointFrom(dy, dx, ysum, xsum) ==
  [lat |-> beside((ysum + mulShift(mulShift(Abs(dx), Abs(dx)),
                                    2 * rateAt(BulgeRate, BulgeSlope, ysum))
                     + 1) \div 2,
                  dx = 0 /\ ysum % 2 = 0),
   lon |-> beside((xsum - sgn(dx) * sgn(dy)
                            * mulShift(mulShift(Abs(dx), Abs(dy)),
                                       2 * rateAt(ShiftRate, ShiftSlope, ysum))
                     + 1) \div 2,
                  (dx = 0 \/ dy = 0) /\ xsum % 2 = 0)]
midpoint(S, E) ==
  midpointFrom(E.lat - S.lat, E.lon - S.lon, S.lat + E.lat, S.lon + E.lon)

\* ---- turf.nearestPointOnLine(road.clipped, referencePoint) ----
\* ---- its algorithm up to turf 7.0 ----
\* A signed number in two parts, hi and 15 further binary digits lo
negated(x) == carried(-x.hi, -x.lo)
added(x, y) == carried(x.hi + y.hi, x.lo + y.lo)
signedProduct(a, b) ==
  IF (a < 0) = (b < 0) \/ a = 0 \/ b = 0 THEN product(Abs(a), Abs(b))
  ELSE negated(product(Abs(a), Abs(b)))
halved(x) == shifted(x, 2)
\* (c / 2^31) * x for a signed x in two parts
cosPart(c, x) ==
  IF x.hi < 0 THEN negated(halved(cosTimes(c, negated(x))))
  ELSE halved(cosTimes(c, x))
\* the real x, times 2^8, in two parts
twoPartWith(x, big) ==
  carried(big, scaledFloor(minusr(times(x, real(256)), real(big)), 15))
twoPart(x) == twoPartWith(x, scaledFloor(x, 8))
\* x * p and x / p for a power of two p
scaleUp(x, p) ==
  [hi |-> x.hi * p + (x.lo * p) \div 32768, lo |-> (x.lo * p) % 32768]
normalised(x, e) ==
  IF e >= 0 THEN scaleUp(x, power2(e)) ELSE shifted(x, power2(-e))

\* N / D in units of 2^-30, for 0 <= N < 2 D and 2^22 <= D.hi < 2^23
fraction30(r0, low, Dh) ==
  LET x1 == r0 * 256 + low \div 128
      x2 == (x1 % Dh) * 256 + (low % 128) * 2
      x3 == (x2 % Dh) * 256
  IN (((x1 \div Dh) * 256 + x2 \div Dh) * 256 + x3 \div Dh) * 64
       + ((x3 % Dh) * 64) \div Dh
quotientOf(i0, frac, rho) ==
  i0 * 1073741824 + frac - (i0 * rho + mulShift(frac, rho))
quotient30(N, D) ==
  quotientOf(N.hi \div D.hi, fraction30(N.hi % D.hi, N.lo, D.hi),
             (D.lo * 32768) \div D.hi)

\* t30 / 2^30 * len to the nearest step, for 0 <= t30 < 2^31
alongRoad(t30, len) ==
  (t30 \div 1073741824) * len + mulShift(t30 % 1073741824, len)
    + (IF mulFrac(t30 % 1073741824, len) >= 16384 THEN 1 ELSE 0)

\* turf turns the line around the reference point P by a right angle and
\* takes the crossing of the great circles through the line and through its
\* turned image. The crossing is at the parameter t = N / D of the road,
\*   N = -(sy ry + c sx rx),  D = ry^2 + c rx^2,  c = cos(lat E) cos(lat P)
\* for the road (rx, ry) whose first end lies (sx, sy) from P, corrected by
\* the terms of the next order in the size of the cell; S and E are the
\* ends of the clipped line.
chordGeometry(r, S, E, P) ==
  [ry |-> real(r.b[2] - r.a[2]), rx |-> real(r.b[1] - r.a[1]),
   sy |-> norm(r.a[2] * Unit - P.lat, -16),
   sx |-> norm(r.a[1] * Unit - P.lon, -16),
   cx |-> norm(E.lon - S.lon, -16), cy |-> norm(E.lat - S.lat, -16)]

chordTrig(S, E, P) ==
  [cP |-> cosLat(P.lat), cE |-> cosLat(E.lat), cS |-> cosLat(S.lat),
   tP |-> tanLat(P.lat), sS |-> sinLat(S.lat)]

\* the square of the distance from P to the end Q, in units
h2of(Q, cQ, P, cP) ==
  plusr(squared(norm(Q.lat - P.lat, -16)),
        times(times(cQ, cP), squared(norm(Q.lon - P.lon, -16))))

largerOf(x, y) == IF lessr(x, y) THEN y ELSE x

chordFirstOrder(g, tr, h2) ==
  [nu |-> times(times(times(tr.sS, tr.cE), times(UNITANGLE, g.cx)),
                times(g.rx, Half)),
   n3 |-> neg(times(squared(times(UNITANGLE, g.cy)), Sixth)),
   e3 |-> neg(times(squared(times(UNITANGLE, g.cx)), Sixth)),
   Er |-> times(tr.cE, g.rx),
   tt |-> squared(tr.tP),
   k3 |-> plusr(One, times(real(3), squared(tr.tP))),
   h2 |-> h2]

chordBearing(g, f) ==
  [Nn |-> plusr(plusr(g.ry, times(g.ry, f.n3)), f.nu),
   Ee |-> plusr(f.Er, times(f.Er, f.e3)),
   uh2 |-> times(UNITANGLE, f.h2),
   dl2 |-> times(UNITANGLE, times(UNITANGLE, f.h2))]

sharesOf(NN, EE, NE, Dc) ==
  [al |-> over(NN, Dc), be |-> over(EE, Dc), ga |-> over(NE, Dc)]
shares(NN, EE, NE) == sharesOf(NN, EE, NE, plusr(NN, EE))

curveA(f, d, s) == times(times(d.dl2, Sixth), times(s.al, f.k3))
curveB(f, d, s) ==
  times(times(d.dl2, Third), minusr(times(s.be, f.k3), times(s.al, f.tt)))

chordCorrections(g, tr, f, d, s) ==
  [NB |-> plusr(plusr(times(g.ry, f.n3), f.nu), times(d.Nn, curveB(f, d, s))),
   EA |-> times(f.Er, minusr(f.e3, curveA(f, d, s))),
   mlat |-> neg(times(times(d.uh2, Half), times(tr.tP, s.al))),
   me |-> neg(times(d.uh2, times(tr.tP, s.ga)))]

dD(g, tr, c) == plusr(times(c.NB, g.ry), times(times(tr.cP, g.rx), c.EA))
dN(g, tr, f, c) ==
  plusr(plusr(neg(times(g.sy, c.NB)), neg(times(times(tr.cP, g.sx), c.EA))),
        plusr(times(c.mlat, plusr(g.ry, c.NB)),
              times(c.me, plusr(f.Er, c.EA))))

baseN(r, P, c) ==
  negated(added(signedProduct((r.a[2] * Unit - P.lat) * 4,
                              (r.b[2] - r.a[2]) * 1048576),
                cosPart(c, signedProduct((r.a[1] * Unit - P.lon) * 4,
                                         (r.b[1] - r.a[1]) * 1048576))))
baseD(r, c) ==
  added([hi |-> (r.b[2] - r.a[2]) * (r.b[2] - r.a[2]) * 256, lo |-> 0],
        halved(cosTimes(c, [hi |-> (r.b[1] - r.a[1]) * (r.b[1] - r.a[1]) * 256,
                            lo |-> 0])))

\* the parameter in units of 2^-30, <<>> when it is not within -2 .. 2
crossingFrom(Na, D, e, sign) ==
  IF Na.hi >= 2 * D.hi THEN <<>>
  ELSE <<sign * quotient30(normalised(Na, e), normalised(D, e))>>
chordQuotient(N, D) ==
  IF N.hi < 0 THEN crossingFrom(negated(N), D, 23 - digitsOf(D.hi), -1)
  ELSE crossingFrom(N, D, 23 - digitsOf(D.hi), 1)

chordCorrected(r, P, c, g, tr, f, corr) ==
  chordQuotient(added(baseN(r, P, c), twoPart(dN(g, tr, f, corr))),
                added(baseD(r, c), twoPart(dD(g, tr, corr))))
chordShared(r, P, c, g, tr, f, d) ==
  chordCorrected(r, P, c, g, tr, f,
    chordCorrections(g, tr, f, d,
                     shares(squared(d.Nn), squared(d.Ee), times(d.Nn, d.Ee))))
chordDirected(r, P, c, g, tr, f) ==
  chordShared(r, P, c, g, tr, f, chordBearing(g, f))
chordWith(r, S, E, P, g, tr) ==
  chordDirected(r, P, cosProduct(E.lat, P.lat), g, tr,
    chordFirstOrder(g, tr, largerOf(h2of(S, tr.cS, P, tr.cP),
                                    h2of(E, tr.cE, P, tr.cP))))
chordCrossing(r, S, E, P) ==
  chordWith(r, S, E, P, chordGeometry(r, S, E, P), chordTrig(S, E, P))

\* the point of the road at the parameter t30
footOf(r, t30) ==
  [lat |-> beside(r.a[2] * Unit
                    + sgn(t30) * sgn(r.b[2] - r.a[2])
                        * alongRoad(Abs(t30), Abs(r.b[2] - r.a[2]) * Unit),
                  FALSE),
   lon |-> beside(r.a[1] * Unit
                    + sgn(t30) * sgn(r.b[1] - r.a[1])
                        * alongRoad(Abs(t30), Abs(r.b[1] - r.a[1]) * Unit),
                  FALSE)]

\* turf starts from the first end of the line, takes the last end if it is
\* nearer to P, and the crossing if it lies on the line and is nearer still;
\* distances that differ by less than the tolerance can go either way.
nearerOf(S, E, dS, dE) ==
  IF surelyLess(dE, dS, 2) THEN {E}
  ELSE IF undecided(dE, dS, 2) THEN {S, E}
  ELSE {S}
nearerEnds(S, E, P) ==
  IF S = E THEN {S} ELSE nearerOf(S, E, distance(P, S), distance(P, E))

closerFrom(f, e, dF, dE) ==
  IF surelyLess(dF, dE, 2) THEN {f}
  ELSE IF undecided(dF, dE, 2) THEN {f, e}
  ELSE {e}
closerOf(f, e, P) ==
  IF f = e THEN {e} ELSE closerFrom(f, e, distance(P, f), distance(P, e))

\* whether the crossing f lies on the clipped line: within Margin steps of
\* an end the last digits of the doubles decide
Margin == 3
crossingWithin(m1, m2) ==
  IF m1 > Margin /\ m2 > Margin THEN {TRUE}
  ELSE IF m1 < -Margin \/ m2 < -Margin THEN {FALSE}
  ELSE BOOLEAN
crossingExists(r, S, E, f) ==
  IF Abs(r.b[2] - r.a[2]) >= Abs(r.b[1] - r.a[1])
    THEN crossingWithin((f.lat - S.lat) * sgn(r.b[2] - r.a[2]),
                        (E.lat - f.lat) * sgn(r.b[2] - r.a[2]))
    ELSE crossingWithin((f.lon - S.lon) * sgn(r.b[1] - r.a[1]),
                        (E.lon - f.lon) * sgn(r.b[1] - r.a[1]))

nearestOf(r, S, E, P, ends, f) ==
  UNION {UNION {IF onLine THEN closerOf(f, e, P) ELSE {e} : e \in ends} :
           onLine \in crossingExists(r, S, E, f)}
nearestFrom(r, S, E, P, ends, t) ==
  IF t = <<>> THEN ends ELSE nearestOf(r, S, E, P, ends, footOf(r, t[1]))
nearestBetween(r, S, E, P) ==
  IF S = E THEN {S}
  ELSE nearestFrom(r, S, E, P, nearerEnds(S, E, P), chordCrossing(r, S, E, P))

\* ---- nearestPointOnSegment of turf 7.1 ----
\* turf takes the foot of the reference point P on the great circle through
\* the ends S and E of the clipped line, and the nearer end where the foot
\* lies beyond the ends. Seen from S along great circles (the gnomonic chart
\* of S), the circle through S and E is a straight line, and the foot is the
\* point of it at the parameter (P' . E') / (E' . E') of the charted P' and
\* E'. On the road from r.a to r.b the parameter is t = N / D,
\*   N = py ry + c px rx,  D = ry^2 + cos(lat E)^2 rx^2,
\*   c = cos(lat E) cos(lat P)
\* for the road (rx, ry) and P lying (px, py) from r.a, corrected by the
\* terms of the chart to the third order; the foot lies off the straight
\* line of the road by the sag of the great circle between S and E.
Twelfth == over(real(1), real(12))

\* the fraction t as a real
fractionReal(t) == over(real(t[1]), real(t[2]))

segmentGeometry(found, S, E, P) ==
  [ry |-> real(found.original.b[2] - found.original.a[2]),
   rx |-> real(found.original.b[1] - found.original.a[1]),
   t0 |-> fractionReal(found.from), t1 |-> fractionReal(found.to),
   lam |-> over(real(found.to[1] * found.from[2] - found.from[1] * found.to[2]),
                real(found.from[2] * found.to[2])),
   aP |-> norm(P.lat - S.lat, -16), bP |-> norm(P.lon - S.lon, -16),
   aE |-> norm(E.lat - S.lat, -16), bE |-> norm(E.lon - S.lon, -16)]

\* dc is cos(lat E) - cos(lat P)
segmentTrig(S, E, P) ==
  [cP |-> cosLat(P.lat), cE |-> cosLat(E.lat), cS |-> cosLat(S.lat),
   sS |-> sinLat(S.lat), tS |-> tanLat(S.lat),
   dc |-> neg(times(sinLat((E.lat + P.lat) \div 2),
                    times(UNITANGLE, norm(E.lat - P.lat, -16))))]

\* how far the chart stretches the point lying a north and b east of S, in
\* its easting (x), its northing (y) and its lift (z)
stretchFrom(a2, b2, k) ==
  [x |-> plusr(plusr(neg(times(b2, Sixth)), times(a2, Half)), k),
   y |-> plusr(times(a2, Third), k),
   z |-> plusr(plusr(times(a2, Half), k), neg(times(b2, Twelfth)))]
stretchWith(cS, cQ, a2, b2) ==
  stretchFrom(a2, b2, times(times(cS, cQ), times(b2, Half)))
gnomonicStretch(cS, cQ, a, b) ==
  stretchWith(cS, cQ, times(squared(UNITANGLE), squared(a)),
              times(squared(UNITANGLE), squared(b)))

segmentFirstOrder(g, tr) ==
  [Er |-> times(tr.cE, g.rx), Pr |-> times(tr.cP, g.bP),
   lift |-> times(times(tr.sS, UNITANGLE), Half),
   eP |-> gnomonicStretch(tr.cS, tr.cP, g.aP, g.bP),
   eE |-> gnomonicStretch(tr.cS, tr.cE, g.aE, g.bE)]

\* what the chart adds to the road (dRx, dRy) and to P (dPx, dPy)
segmentCharted(g, f) ==
  [dRx |-> times(f.Er, f.eE.x),
   dRy |-> plusr(times(g.ry, f.eE.y),
                 times(times(f.lift, g.lam), times(f.Er, g.rx))),
   dPx |-> times(f.Pr, f.eP.x),
   dPy |-> plusr(times(g.aP, f.eP.y),
                 times(times(times(f.lift, f.Pr), g.bP), plusr(One, f.eP.z)))]

segmentD(g, f, d) ==
  plusr(plusr(times(times(real(2), f.Er), d.dRx), squared(d.dRx)),
        plusr(times(times(real(2), g.ry), d.dRy), squared(d.dRy)))
segmentN(g, tr, f, d, dDv) ==
  plusr(plusr(times(g.t0, plusr(times(times(tr.cE, tr.dc), squared(g.rx)), dDv)),
              plusr(times(f.Pr, d.dRx), times(d.dPx, plusr(f.Er, d.dRx)))),
        plusr(times(g.aP, d.dRy), times(d.dPy, plusr(g.ry, d.dRy))))

\* t / 2^30 * span * Unit + sag * Unit to the nearest step, for 0 <= t
sagged(t30, span, sag) ==
  sgn(span) * ((t30 \div 1073741824) * (Abs(span) * Unit)
                 + mulShift(t30 % 1073741824, Abs(span) * Unit))
    + (sgn(span) * mulFrac(t30 % 1073741824, Abs(span) * Unit)
         + scaledFloor(sag, 31) + 16384) \div 32768

\* the foot at the parameter t30: uw is u (t - t0) (t1 - t)
footWith(r, g, tr, t30, uw) ==
  [lat |-> beside(r.a[2] * Unit
                    + sagged(t30, r.b[2] - r.a[2],
                             times(times(times(tr.sS, tr.cS), Half),
                                   times(uw, squared(g.rx)))),
                  FALSE),
   lon |-> beside(r.a[1] * Unit
                    + sagged(t30, r.b[1] - r.a[1],
                             neg(times(tr.tS, times(uw, times(g.rx, g.ry))))),
                  FALSE)]
footOnCircle(r, g, tr, t30) ==
  footWith(r, g, tr, t30,
           times(UNITANGLE, times(minusr(norm(t30, -30), g.t0),
                                  minusr(g.t1, norm(t30, -30)))))

\* if (angle(A, I) > angleAB || angle(B, I) > angleAB) the nearer end
segmentClamped(r, S, E, g, tr, N, t) ==
  IF t = <<>> THEN (IF N.hi < 0 THEN S ELSE E)
  ELSE IF t[1] <= scaledFloor(g.t0, 30) THEN S
  ELSE IF t[1] >= scaledFloor(g.t1, 30) THEN E
  ELSE footOnCircle(r, g, tr, t[1])
segmentQuotient(r, S, E, g, tr, N, D) ==
  segmentClamped(r, S, E, g, tr, N, chordQuotient(N, D))
segmentCorrected(r, S, E, P, g, tr, f, d, dDv) ==
  segmentQuotient(r, S, E, g, tr,
    added(baseN(r, P, cosProduct(E.lat, P.lat)),
          twoPart(segmentN(g, tr, f, d, dDv))),
    added(baseD(r, cosProduct(E.lat, E.lat)), twoPart(dDv)))
segmentShifted(r, S, E, P, g, tr, f, d) ==
  segmentCorrected(r, S, E, P, g, tr, f, d, segmentD(g, f, d))
segmentWith(r, S, E, P, g, tr, f) ==
  segmentShifted(r, S, E, P, g, tr, f, segmentCharted(g, f))
segmentFrom(r, S, E, P, g, tr) ==
  segmentWith(r, S, E, P, g, tr, segmentFirstOrder(g, tr))
nearestPointOnSegment(found, S, E, P) ==
  IF S = E THEN S
  ELSE segmentFrom(found.original, S, E, P, segmentGeometry(found, S, E, P),
                   segmentTrig(S, E, P))

\* the points it can return for a found road, by the release of turf
nearestPointOnLine(found, P) ==
  IF turfRelease = "6.5"
    THEN nearestBetween(found.original, found.clipped[1], found.clipped[2], P)
    ELSE {nearestPointOnSegment(found, found.clipped[1], found.clipped[2], P)}

\* roadConnectsToNextSquare(road, nextSquare): the values it can return
roadConnectsToNextSquare(road, nextSquare) ==
  IF nextSquare.bounds = NoBounds THEN {FALSE}
  ELSE booleanIntersects(road.original, nextSquare)

\* findConnectingRoads(roadsInSquare, nextSquare): the sets of indices it
\* can return
findConnectingRoads(roads, nextSquare) ==
  {connecting \in SUBSET (1..Len(roads)) :
     \A i \in 1..Len(roads) :
       (i \in connecting) \in roadConnectsToNextSquare(roads[i], nextSquare)}

\* the priorities of the candidates, in tenths
intersectionPriority(isConnecting) == IF isConnecting THEN 50 ELSE 30

midpointPriority(isConnecting) == IF isConnecting THEN 40 ELSE 20

nearestPriority(isConnecting) == IF isConnecting THEN 35 ELSE 10

suffixed(name, isConnecting) ==
  IF isConnecting
  THEN CASE name = "intersection" -> "intersection-connecting"
         [] name = "midpoint" -> "midpoint-connecting"
         [] OTHER -> "nearest-connecting"
  ELSE name

\* the candidates in the order the three strategies push them; connecting
\* is the set of indices of connecting roads, ref the reference point of
\* the nearest strategy: the lists the strategies can collect
intersectionCandidate(point, isConnecting) ==
  [point |-> point, priority |-> intersectionPriority(isConnecting),
   kind |-> "intersection", type |-> suffixed("intersection", isConnecting),
   isConnecting |-> isConnecting]

RECURSIVE pairCandidates(_, _, _, _)
pairCandidates(roads, connecting, i, j) ==
  IF i > Len(roads) THEN {<<>>}
  ELSE IF j > Len(roads) THEN pairCandidates(roads, connecting, i + 1, i + 2)
  ELSE {[k \in 1..Len(here) |->
           intersectionCandidate(here[k], i \in connecting \/ j \in connecting)]
          \o rest :
          here \in lineIntersect(roads[i], roads[j]),
          rest \in pairCandidates(roads, connecting, i, j + 1)}

midpointCandidates(roads, connecting) ==
  [i \in 1..Len(roads) |->
     [point |-> midpoint(roads[i].clipped[1], roads[i].clipped[2]),
      priority |-> midpointPriority(i \in connecting),
      kind |-> "midpoint",
      type |-> suffixed("midpoint", i \in connecting),
      isConnecting |-> i \in connecting]]

nearestCandidate(point, isConnecting) ==
  [point |-> point, priority |-> nearestPriority(isConnecting),
   kind |-> "nearest", type |-> suffixed("nearest", isConnecting),
   isConnecting |-> isConnecting]

RECURSIVE nearestCandidates(_, _, _, _)
nearestCandidates(roads, connecting, ref, i) ==
  IF i > Len(roads) THEN {<<>>}
  ELSE {<<nearestCandidate(point, i \in connecting)>> \o rest :
          point \in nearestPointOnLine(roads[i], ref),
          rest \in nearestCandidates(roads, connecting, ref, i + 1)}

collectCandidates(roads, connecting, ref) ==
  {crossings \o midpointCandidates(roads, connecting) \o nearest :
     crossings \in (IF Len(roads) > 1 THEN pairCandidates(roads, connecting, 1, 2)
                    ELSE {<<>>}),
     nearest \in nearestCandidates(roads, connecting, ref, 1)}

\* the sum of the distances to the given reference points (null is <<>>)
neighbourDistance(p, prev, next) ==
  plus(IF prev # <<>> THEN distance(p, prev) ELSE ZeroLength,
       IF next # <<>> THEN distance(p, next) ELSE ZeroLength)

\* the distance the comparator of the sort takes for a candidate, and the
\* number of legs measured for two candidates it compares
sortKey(c, center, prev, next) ==
  IF prev # <<>> \/ next # <<>> THEN neighbourDistance(c.point, prev, next)
  ELSE distance(c.point, center)
sortLegs(prev, next) == IF prev # <<>> /\ next # <<>> THEN 4 ELSE 2

\* candidates.sort(...)[0]: highest priority, then the smallest distance.
\* Among candidates whose distances are the same to within the tolerance,
\* the candidate pushed first is candidates[0] when the distances are equal
\* in the source too (the sort is stable); a difference in the last digits
\* of the doubles puts any of them first.
bestAmong(cands, keys, legs) ==
  {cands[k] : k \in {k \in 1..Len(cands) :
                       \A m \in 1..Len(cands) :
                         \/ cands[k].priority > cands[m].priority
                         \/ /\ cands[k].priority = cands[m].priority
                            /\ ~surelyLess(keys[m], keys[k], legs)}}
bestCandidates(cands, center, prev, next) ==
  bestAmong(cands,
            [k \in 1..Len(cands) |-> sortKey(cands[k], center, prev, next)],
            sortLegs(prev, next))

\* findBestWaypointOnRoads(roadsInSquare, square): the waypoints the call
\* can return
waypointsOf(cands, center, prev, next) ==
  {[point |-> best.point, type |-> best.type,
    isConnecting |-> best.isConnecting] :
     best \in bestCandidates(cands, center, prev, next)}
findBestWaypointOnRoads(roads, square) ==
  IF Len(roads) = 0 THEN {NoWaypoint}
  ELSE UNION {waypointsOf(cands, squareCenter(square), <<>>, <<>>) :
                cands \in collectCandidates(roads, {}, squareCenter(square))}

\* findBestWaypointWithNeighbors(roadsInSquare, square, prevPoint,
\* nextPoint, nextSquare): the waypoints the call can return
neighbourCandidates(roads, square, next, nextSquare) ==
  UNION {collectCandidates(roads, connecting,
                           IF next # <<>> THEN next ELSE squareCenter(square)) :
           connecting \in findConnectingRoads(roads, nextSquare)}
findBestWaypointWithNeighbors(roads, square, prev, next, nextSquare) ==
  IF Len(roads) = 0 THEN {NoWaypoint}
  ELSE UNION {waypointsOf(cands, squareCenter(square), prev, next) :
                cands \in neighbourCandidates(roads, square, next, nextSquare)}


\* ---- waypoints ----
\* gridCoords of an object that has none (undefined). No caller of
\* calculateRoute hands it metadata (store.proposedMetadata is not a field
\* of the store, RouteControls.vue:46), so that extractProposedSquares
\* leaves the gridCoords of every square undefined
NoGridCoords == <<>>

\* The start point as a route element. It has no hasRoad, type or
\* squareIndex property in the source; "wp.hasRoad === false" is false for
\* it, as for hasRoad = TRUE, and type "start" marks it here.
startWaypoint(start) ==
  [lat |-> start.lat, lon |-> start.lon, squareIndex |-> -1, hasRoad |-> TRUE,
   type |-> "start", isConnecting |-> FALSE, gridCoords |-> NoGridCoords,
   alternatives |-> <<>>]

\* { lat, lon } of a square as a route element of the inline revision; it has
\* no further property, type "square" marks it here
centerWaypoint(p, index) ==
  [lat |-> p.lat, lon |-> p.lon, squareIndex |-> index, hasRoad |-> TRUE,
   type |-> "square", isConnecting |-> FALSE, gridCoords |-> NoGridCoords,
   alternatives |-> <<>>]

\* What optimizeWaypoints and optimizeWaypointsWithSequence push for a
\* square of which roadCount roads were found: the waypoint the placer
\* returned with squareIndex, gridCoords and hasRoad; the centre of the
\* square flagged hasRoad = FALSE when no road was found or the placer
\* returned null; lat and lon of a square without bounds. The placer returns
\* { lat, lon, type } (and isConnecting) of the best candidate only; a
\* waypoint has no alternatives property, which refineCandidates treats like
\* the empty list written here, and a missing isConnecting is FALSE.
placeWaypoint(square, waypoint, index, roadCount) ==
  IF square.bounds = NoBounds
    THEN [lat |-> square.lat, lon |-> square.lon, squareIndex |-> index,
          hasRoad |-> FALSE, type |-> "no-bounds", isConnecting |-> FALSE,
          gridCoords |-> square.gridCoords, alternatives |-> <<>>]
  ELSE IF roadCount > 0 /\ waypoint # NoWaypoint
    THEN [lat |-> waypoint.point.lat, lon |-> waypoint.point.lon,
          squareIndex |-> index, hasRoad |-> TRUE, type |-> waypoint.type,
          isConnecting |-> waypoint.isConnecting,
          gridCoords |-> square.gridCoords, alternatives |-> <<>>]
  ELSE [lat |-> squareCenter(square).lat, lon |-> squareCenter(square).lon,
        squareIndex |-> index, hasRoad |-> FALSE,
        type |-> IF roadCount > 0 THEN "center-fallback" ELSE "no-road",
        isConnecting |-> FALSE,
        gridCoords |-> square.gridCoords, alternatives |-> <<>>]

\* the waypoints optimizeWaypoints can push for square k
roughWaypoint(sqs, roads, k) ==
  UNION {{placeWaypoint(sqs[k], waypoint, k - 1, Len(found)) :
            waypoint \in findBestWaypointOnRoads(found, sqs[k])} :
         found \in findRoadsInSquare(roads, sqs[k])}

\* optimizeWaypoints(squares, roads).waypoints: the lists the call can
\* return
optimizeWaypoints(sqs, roads) ==
  choices([k \in 1..Len(sqs) |-> roughWaypoint(sqs, roads, k)])

coordsOf(wps) == [k \in 1..Len(wps) |-> [lat |-> wps[k].lat, lon |-> wps[k].lon]]

\* tspResult.route without the start point (and without the closing start
\* point of a round trip)
routeSquaresOnly(route, rt) ==
  SubSeq(route, 2, IF rt THEN Len(route) - 1 ELSE Len(route))

\* The square found for a TSP waypoint, by its 1-based index in squares:
\* the square of the first rough waypoint that matches the waypoint, 0 when
\* none matches. The values it can have
matchingSquare(waypoint, roughWaypoints) ==
  {IF k = 0 THEN 0 ELSE roughWaypoints[k].squareIndex + 1 :
     k \in firstHolding([m \in 1..Len(roughWaypoints) |->
                           pointsMatch(roughWaypoints[m], waypoint)])}

\* matchingSquare || { ...waypoint, bounds: null }
squareOrWaypoint(sqs, index, waypoint) ==
  IF index = 0
    THEN [lat |-> waypoint.lat, lon |-> waypoint.lon,
          gridCoords |-> NoGridCoords, bounds |-> NoBounds]
    ELSE sqs[index]

\* orderedSquares for the route of the solver and the rough waypoints: each
\* square with its index, the lists the map can give
orderedFor(sqs, route, roughWaypoints) ==
  choices([i \in 1..Len(route) |->
             {[index |-> index, square |-> squareOrWaypoint(sqs, index, route[i])] :
                index \in matchingSquare(route[i], roughWaypoints)}])

\* Phase 1: the lists orderedSquares can be
orderedSquares(sqs, roads, start, rt) ==
  UNION {UNION {orderedFor(sqs, routeSquaresOnly(tspResult.route, rt),
                           roughWaypoints) :
                  tspResult \in solveTSP(coordsOf(roughWaypoints), start, rt)} :
         roughWaypoints \in optimizeWaypoints(sqs, roads)}

\* The for loop of optimizeWaypointsWithSequence from the i-th ordered square
\* on (1-based), placed being results.waypoints so far: the lists it can
\* end with, and whether it threw. A square without bounds gets a waypoint
\* of type 'no-bounds'. When the next square has no bounds,
\* getBoundsCenter(nextSquare) is { lat: NaN, lon: NaN }, and
\* findBestWaypointWithNeighbors, called when the square has roads, throws
\* on turf.point of it, outside its try blocks.
previousPoint(start, i, placed) ==
  IF i = 1 THEN start
  ELSE [lat |-> placed[Len(placed)].lat, lon |-> placed[Len(placed)].lon]

nextSquareOf(ordered, i) ==
  IF i = Len(ordered) THEN NoSquare ELSE ordered[i + 1]

nextPointOf(ordered, start, rt, i) ==
  IF i = Len(ordered) THEN (IF rt THEN start ELSE <<>>)
  ELSE IF ordered[i + 1].bounds = NoBounds THEN <<>>
  ELSE squareCenter(ordered[i + 1])

throwsOnNext(ordered, i, found) ==
  /\ Len(found) > 0 /\ i < Len(ordered)
  /\ ordered[i + 1].bounds = NoBounds

RECURSIVE sequenceFrom(_, _, _, _, _, _)
sequenceFrom(ordered, roads, start, rt, i, placed) ==
  IF i > Len(ordered) THEN {[waypoints |-> placed, threw |-> FALSE]}
  ELSE IF ordered[i].bounds = NoBounds
    THEN sequenceFrom(ordered, roads, start, rt, i + 1,
                      Append(placed, placeWaypoint(ordered[i], NoWaypoint, i - 1, 0)))
  ELSE UNION {
         IF throwsOnNext(ordered, i, found)
           THEN {[waypoints |-> placed, threw |-> TRUE]}
           ELSE UNION {sequenceFrom(ordered, roads, start, rt, i + 1,
                         Append(placed, placeWaypoint(ordered[i], waypoint, i - 1,
                                                      Len(found)))) :
                       waypoint \in findBestWaypointWithNeighbors(
                                      found, ordered[i],
                                      previousPoint(start, i, placed),
                                      nextPointOf(ordered, start, rt, i),
                                      nextSquareOf(ordered, i))} :
         found \in findRoadsInSquare(roads, ordered[i])}

\* optimizeWaypointsWithSequence(orderedSquares, roads, startPoint,
\* roundtrip): the outcomes the call can have
optimizeWaypointsWithSequence(ordered, roads, start, rt) ==
  sequenceFrom(ordered, roads, start, rt, 1, <<>>)

\* Phases 1 and 2 of the road-aware path: orderedSquares (by the indices of
\* the squares) and the outcome of the placement for them
twoPhaseWaypoints(sqs, roads, start, rt) ==
  UNION {{[ordered |-> [i \in 1..Len(ordered) |-> ordered[i].index],
           waypoints |-> placement.waypoints, threw |-> placement.threw] :
            placement \in optimizeWaypointsWithSequence(
                            [i \in 1..Len(ordered) |-> ordered[i].square],
                            roads, start, rt)} :
           ordered \in orderedSquares(sqs, roads, start, rt)}

\* ---- refineCandidates (tsp-solver.js) ----
RefineMaxIterations == 10

\* the element of testRoute that stands for wp with the candidate alt
withAlternative(wp, alt) ==
  [wp EXCEPT !.lat = alt.lat, !.lon = alt.lon, !.type = alt.type]

RemoveAlternative(alts, a) ==
  [k \in 1..(Len(alts) - 1) |-> IF k < a THEN alts[k] ELSE alts[k + 1]]

\* the accepted swap: the old candidate goes to the front of the alternatives
swapCandidate(wp, a) ==
  [withAlternative(wp, wp.alternatives[a]) EXCEPT
     !.alternatives = <<[lat |-> wp.lat, lon |-> wp.lon, type |-> wp.type]>>
                        \o RemoveAlternative(wp.alternatives, a)]

\* 0.001 km, in micrometres
SwapThreshold == 1000000

\* Mutant: any candidate that changes the length is accepted
acceptsSwap_AnyChange(newDistance, currentDistance) ==
  {micrometresBetween(newDistance, currentDistance) # 0}

\* newDistance < currentDistance - 0.001: the values the test can have. The
\* two routes differ in the two legs at the waypoint
acceptsSwap(newDistance, currentDistance) ==
  IF surelyBelow(newDistance, currentDistance, SwapThreshold, 4) THEN {TRUE}
  ELSE IF undecidedBelow(newDistance, currentDistance, SwapThreshold, 4)
    THEN BOOLEAN
  ELSE {FALSE}

\* the pairs <<i, a>> of an interior waypoint and one of its alternatives,
\* in the order of the two for loops
RECURSIVE swapPairs(_, _)
swapPairs(route, i) ==
  IF i > Len(route) - 1 THEN <<>>
  ELSE [a \in 1..Len(route[i].alternatives) |-> <<i, a>>] \o swapPairs(route, i + 1)

testRoute(route, p) ==
  [route EXCEPT ![p[1]] = withAlternative(@, @.alternatives[p[2]])]

\* the pair at which a pass of the while loop can accept its swap, by its
\* place in pairs, 0 for a pass that accepts none
acceptedSwap(route, pairs, currentDistance) ==
  firstHolding([k \in 1..Len(pairs) |->
                  acceptsSwap(calculateRouteDistance(testRoute(route, pairs[k])),
                              currentDistance)])

RECURSIVE refineLoop(_, _, _, _, _, _, _)
refineLoop(route, iters, swaps, currentDistance, maxIterations, improved, lengths) ==
  IF ~(improved /\ iters < maxIterations)
    THEN {[route |-> route, iterations |-> iters, swaps |-> swaps,
           distance |-> currentDistance, lengths |-> lengths]}
  ELSE UNION {
         IF k = 0
           THEN refineLoop(route, iters + 1, swaps, currentDistance,
                           maxIterations, FALSE, lengths)
           ELSE refineLoop(
                  [route EXCEPT ![swapPairs(route, 2)[k][1]] =
                                   swapCandidate(@, swapPairs(route, 2)[k][2])],
                  iters + 1, swaps + 1,
                  calculateRouteDistance(testRoute(route, swapPairs(route, 2)[k])),
                  maxIterations, TRUE,
                  Append(lengths,
                         calculateRouteDistance(testRoute(route, swapPairs(route, 2)[k])))) :
         k \in acceptedSwap(route, swapPairs(route, 2), currentDistance)}

\* refineCandidates(route, maxIterations): the results the call can have.
\* lengths is not a property of the result: it lists currentDistance as it
\* was at first and after each accepted swap
refineCandidates(route, maxIterations) ==
  IF Len(route) < 3
    THEN {[route |-> route, iterations |-> 0, swaps |-> 0,
           distance |-> calculateRouteDistance(route),
           lengths |-> <<calculateRouteDistance(route)>>]}
    ELSE refineLoop(route, 0, 0, calculateRouteDistance(route), maxIterations,
                    TRUE, <<calculateRouteDistance(route)>>)

\* ---- Phase 3, the refinement loop ----
MaxRefinementRounds == 5

\* 0.01 km, in micrometres
StopThreshold == 10000000

\* The loop before its first round. round counts the rounds begun; swaps,
\* lengths and gain are those of the last round (lengths: the length of the
\* route before and after each swap of refineCandidates; gain: what 2-opt
\* took off the route, in micrometres); calls lists the solver functions
\* called, in order
refinementStart(currentRoute) ==
  [route |-> currentRoute, round |-> 0,
   lastDistance |-> calculateRouteDistance(currentRoute), ended |-> FALSE,
   swaps |-> 0, lengths |-> <<>>, gain |-> 0, calls |-> <<>>]

\* Mutant: the loop has no break
stopsRefinement_Never(newDistance, lastDistance, legs) == {FALSE}

\* newDistance >= lastDistance - 0.01: the values the test can have. The
\* two lengths are those of two orders of the route
stopsRefinement(newDistance, lastDistance, legs) ==
  IF surelyBelow(newDistance, lastDistance, StopThreshold, legs) THEN {FALSE}
  ELSE IF undecidedBelow(newDistance, lastDistance, StopThreshold, legs)
    THEN BOOLEAN
  ELSE {TRUE}

\* the round that ran to its end: stop is the test that breaks the loop
roundEnd(st, refined, route, stop) ==
  [route |-> route, round |-> st.round + 1,
   lastDistance |-> IF stop THEN st.lastDistance
                    ELSE calculateRouteDistance(route),
   ended |-> stop \/ ~(st.round + 1 < MaxRefinementRounds),
   swaps |-> refined.swaps, lengths |-> refined.lengths,
   gain |-> micrometresBetween(calculateRouteDistance(route), refined.distance),
   calls |-> st.calls \o <<"refineCandidates", "twoOptOptimize">>]

\* after twoOptOptimize returned route
roundAfterTwoOpt(st, refined, route) ==
  {roundEnd(st, refined, route, stop) :
     stop \in stopsRefinement(calculateRouteDistance(route), st.lastDistance,
                              2 * (Len(route) - 1))}

\* the round after refineCandidates returned refined
roundAfterRefine(st, refined) ==
  IF refined.swaps = 0 /\ st.round > 0
    THEN {[st EXCEPT !.round = @ + 1, !.ended = TRUE, !.swaps = 0,
                     !.lengths = refined.lengths, !.gain = 0,
                     !.calls = Append(@, "refineCandidates")]}
    ELSE UNION {roundAfterTwoOpt(st, refined, route) :
                  route \in twoOptOptimize(refined.route, DefaultMaxIterations)}

\* Mutant: each round constructs the order anew
refinementRound_Resolve(st) ==
  UNION {{[route |-> route, round |-> st.round + 1,
           lastDistance |-> calculateRouteDistance(route),
           ended |-> TRUE, swaps |-> refined.swaps, lengths |-> refined.lengths,
           gain |-> 0,
           calls |-> st.calls \o <<"refineCandidates", "solveTSP">>] :
            route \in nearestNeighbor(Tail(refined.route), refined.route[1], FALSE)} :
         refined \in refineCandidates(st.route, RefineMaxIterations)}

\* One pass through the body of "for (round = 0; round < 5; round++)": the
\* states it can end in
refinementRound(st) ==
  UNION {roundAfterRefine(st, refined) :
           refined \in refineCandidates(st.route, RefineMaxIterations)}

RECURSIVE runRounds(_)
runRounds(st) ==
  IF st.ended THEN {st}
  ELSE UNION {runRounds(after) : after \in refinementRound(st)}

\* the loop as calculateRoute runs it on finalWaypoints
refinementOf(waypoints, start, rt) ==
  runRounds(refinementStart(<<startWaypoint(start)>> \o waypoints
                              \o (IF rt THEN <<startWaypoint(start)>> ELSE <<>>)))

\* finalWaypoints = currentRoute.slice(1, roundtrip ? -1 : undefined)
refinementLoop(route, rt) ==
  SubSeq(route, 2, IF rt THEN Len(route) - 1 ELSE Len(route))

\* ---- the fallback to the cell centres ----
\* squares.find(s => pointsMatch(s, wp))?.gridCoords: the values it can have
centerGridCoords(sqs, wp) ==
  {IF k = 0 THEN NoGridCoords ELSE sqs[k].gridCoords :
     k \in firstHolding([m \in 1..Len(sqs) |-> pointsMatch(sqs[m], wp)])}

\* the waypoints the map of the fallback can make of element i of the route
\* of the solver; the strategies revision gives them no gridCoords
centerFallbackAt(rev, sqs, wp, i) ==
  {[lat |-> wp.lat, lon |-> wp.lon, squareIndex |-> i - 1, hasRoad |-> FALSE,
    type |-> "center-fallback", isConnecting |-> FALSE,
    gridCoords |-> gridCoords, alternatives |-> <<>>] :
     gridCoords \in IF rev = "strategies" THEN {NoGridCoords}
                    ELSE centerGridCoords(sqs, wp)}

centerFallbackOf(rev, sqs, route) ==
  choices([i \in 1..Len(route) |-> centerFallbackAt(rev, sqs, route[i], i)])

\* The fallback of the revisions with two phases: solveTSP on the centres
\* and the waypoints made of its route; the lists it can give
centerFallback(rev, sqs, start, rt) ==
  UNION {centerFallbackOf(rev, sqs, routeSquaresOnly(tspResult.route, rt)) :
           tspResult \in solveTSP(coordsOf(sqs), start, rt)}

\* The fallback of the single-phase revision: the centres in the order of
\* the squares
centerWaypoints(sqs) ==
  [k \in 1..Len(sqs) |->
     [lat |-> sqs[k].lat, lon |-> sqs[k].lon, squareIndex |-> k - 1,
      hasRoad |-> FALSE, type |-> "center-fallback", isConnecting |-> FALSE,
      gridCoords |-> NoGridCoords, alternatives |-> <<>>]]

\* waypointCoords of the single-phase revision: { lat, lon, type, hasRoad }
\* of each waypoint; the other properties are gone
waypointCoords(wps) ==
  [k \in 1..Len(wps) |->
     [lat |-> wps[k].lat, lon |-> wps[k].lon, squareIndex |-> -1,
      hasRoad |-> wps[k].hasRoad, type |-> wps[k].type, isConnecting |-> FALSE,
      gridCoords |-> NoGridCoords, alternatives |-> <<>>]]

\* squarePoints of the inline revision
squarePoints(sqs) == [k \in 1..Len(sqs) |-> centerWaypoint(sqs[k], -1)]

buildFinalRoute(waypoints, start, rt) ==
  <<startWaypoint(start)>> \o waypoints
    \o (IF rt THEN <<startWaypoint(start)>> ELSE <<>>)

\* What calculateRoute has when its waypoints are built: finalWaypoints,
\* the route (finalTspResult.route or tspResult.route), roadFetchFailed, the
\* tsp-solver functions it called, in order, and orderedSquares
built(waypoints, route, failed, calls, ordered) ==
  [waypoints |-> waypoints, route |-> route, failed |-> failed,
   calls |-> calls, ordered |-> ordered]

\* "if (roadFetchFailed || !finalWaypoints)" of the revisions with two
\* phases, after calls were made
fallbackBuilt(rev, sqs, start, rt, calls, ordered) ==
  {built(waypoints, buildFinalRoute(waypoints, start, rt), TRUE,
         Append(calls, "solveTSP"), ordered) :
     waypoints \in centerFallback(rev, sqs, start, rt)}

\* the road-aware path of the revisions with two phases after phase 2: the
\* refinement loop in the latest revision; the catch and the fallback when
\* the placement threw
afterPhases(rev, sqs, start, rt, phases) ==
  IF phases.threw
    THEN fallbackBuilt(rev, sqs, start, rt, <<"solveTSP">>, phases.ordered)
  ELSE IF rev = "latest"
    THEN {built(refinementLoop(st.route, rt),
                buildFinalRoute(refinementLoop(st.route, rt), start, rt), FALSE,
                <<"solveTSP">> \o st.calls, phases.ordered) :
            st \in refinementOf(phases.waypoints, start, rt)}
  ELSE {built(phases.waypoints, buildFinalRoute(phases.waypoints, start, rt),
              FALSE, <<"solveTSP">>, phases.ordered)}

\* the single-phase revision: one call of solveTSP on the waypoints
singlePhaseBuilt(wps, start, rt, failed) ==
  {built(routeSquaresOnly(tspResult.route, rt), tspResult.route, failed,
         <<"solveTSP">>, <<>>) :
     tspResult \in solveTSP(waypointCoords(wps), startWaypoint(start), rt)}

\* the inline revision: solveTSP on the centres, no road data
inlineBuilt(sqs, start, rt) ==
  {built(routeSquaresOnly(tspResult.route, rt), tspResult.route, FALSE,
         <<"solveTSP">>, <<>>) :
     tspResult \in solveTSP(squarePoints(sqs), startWaypoint(start), rt)}

\* calculateRoute up to its final route, fetched telling whether the road
\* fetch gave roads (roads.length > 0) or failed: the outcomes it can have.
\* Inside the try, the calls after the fetch that can throw are those of
\* optimizeWaypointsWithSequence; onProgress, the callback of RouteControls
\* (RouteControls.vue:48-50), assigns its argument and returns.
buildWaypoints(rev, sqs, roads, start, rt, fetched) ==
  IF rev = "inline" THEN inlineBuilt(sqs, start, rt)
  ELSE IF rev = "single-phase"
    THEN IF fetched
           THEN UNION {singlePhaseBuilt(wps, start, rt, FALSE) :
                         wps \in optimizeWaypoints(sqs, roads)}
           ELSE singlePhaseBuilt(centerWaypoints(sqs), start, rt, TRUE)
  ELSE IF ~fetched THEN fallbackBuilt(rev, sqs, start, rt, <<>>, <<>>)
  ELSE UNION {afterPhases(rev, sqs, start, rt, phases) :
                phases \in twoPhaseWaypoints(sqs, roads, start, rt)}

\* ---- the skipped-square filter of the latest and sequential revisions ----
\* whether the filter loop pushes wp to routeWithRoads: the values it can
\* have
keptInRoute(wp, start) ==
  {matches \/ ~(wp.hasRoad = FALSE) : matches \in pointsMatch(wp, start)}

skippedCoords(wp) ==
  [lat |-> wp.lat, lon |-> wp.lon, squareIndex |-> wp.squareIndex,
   type |-> wp.type]

\* the filter loop from element i on: routeWithRoads and skippedSquareCoords
\* as it can leave them
RECURSIVE filterFrom(_, _, _, _, _)
filterFrom(route, start, i, kept, skipped) ==
  IF i > Len(route) THEN {[kept |-> kept, skipped |-> skipped]}
  ELSE UNION {IF keeps
                THEN filterFrom(route, start, i + 1, Append(kept, route[i]), skipped)
                ELSE filterFrom(route, start, i + 1, kept,
                                Append(skipped, skippedCoords(route[i]))) :
              keeps \in keptInRoute(route[i], start)}

filterRoute(route, start) == filterFrom(route, start, 1, <<>>, <<>>)

\* ---- the fallback chain ----
\* What calculateRoute does next: submit a waypoint list in a tier, or throw
submitStep(t, level, fw, waypoints) ==
  [kind |-> "submit", tier |-> t, level |-> level, finalWaypoints |-> fw,
   waypoints |-> waypoints, error |-> "none"]

throwStep(t, level, fw, error) ==
  [kind |-> "throw", tier |-> t, level |-> level, finalWaypoints |-> fw,
   waypoints |-> <<>>, error |-> error]

\* the lists of the simplification levels: SimplificationStrategy, and
\* simplifyWaypoints of the inline revision; the lists a level can give
levelWaypointsOf(rev, route, level) ==
  IF rev = "inline" THEN inlineSimplifyWaypoints(route, level)
  ELSE levelWaypoints(route, level)

\* From the final route to the first routing request, routeWithRoads being
\* what the filter left. strategies, single-phase and inline revision: the
\* first simplification level for a route of more than 20 points; latest and
\* sequential revision: the "routeWithRoads.length < 2" test. The steps it
\* can be
firstStep(rev, route, waypoints, routeWithRoadsOf) ==
  IF rev \in {"latest", "sequential"}
    THEN IF Len(routeWithRoadsOf) < 2
           THEN {throwStep("none", -1, waypoints, "no suitable roads")}
           ELSE {submitStep("profiles", -1, waypoints, routeWithRoadsOf)}
  ELSE IF Len(route) > 20
    THEN {submitStep("profiles", 0, simplified, simplified) :
            simplified \in levelWaypointsOf(rev, route, 0)}
  ELSE {submitStep("profiles", -1, route, route)}

\* Step 9 of the strategies revision, and the last attempt of the inline
\* revision, whose loop builds the list createMinimalWaypoints returns
minimalStep(t, level, fw) ==
  IF Len(fw) > 3
    THEN submitStep("minimal", level, fw, createMinimalWaypoints(fw))
    ELSE throwStep(t, level, fw, "routing failed")

\* After tryProfilesWithFallback returned { success: false, error }: the
\* steps that can follow
afterTierFailed(rev, t, error, fw, level, route) ==
  IF rev \in {"strategies", "single-phase"}
    THEN IF t = "profiles" /\ isCoverageError(error) /\ hasMoreLevels(level)
           THEN {submitStep("simplified", level + 1, simplified, simplified) :
                   simplified \in levelWaypoints(route, level + 1)}
         ELSE IF t \in {"profiles", "simplified"}
           THEN {minimalStep(t, level, fw)}
         ELSE {throwStep(t, level, fw, "routing failed")}
    ELSE {throwStep(t, level, fw, "routing failed")}

\* tryMoreAggressive of the inline revision, level being
\* simplificationLevel - 1: the level and the list it can leave. At
\* simplificationLevel 2 it changes nothing
moreAggressive(route, level, fw) ==
  IF level = -1
    THEN {[level |-> 1, waypoints |-> simplified] :
            simplified \in inlineSimplifyWaypoints(route, 1)}
  ELSE IF level = 0
    THEN {[level |-> 2, waypoints |-> simplified] :
            simplified \in inlineSimplifyWaypoints(route, 2)}
  ELSE {[level |-> level, waypoints |-> fw]}

attemptOf(waypoints, profile, attemptNumber, t, level) ==
  [waypoints |-> waypoints, profile |-> profile, attemptNumber |-> attemptNumber,
   tier |-> t, level |-> level, response |-> "pending"]

markLast(log, response) == [log EXCEPT ![Len(log)].response = response]

Proceed(step, log) ==
  /\ tier' = step.tier
  /\ currentLevel' = step.level
  /\ finalWaypoints' = step.finalWaypoints
  /\ IF step.kind = "submit"
       THEN /\ rpc' = "awaitBRouter"
            /\ submitted' = step.waypoints
            /\ profileIdx' = 1
            /\ attempts' = Append(log, attemptOf(step.waypoints,
                 tierProfiles(revision, bikeType, step.tier)[1], 1, step.tier,
                 step.level))
            /\ outcome' = outcome
       ELSE /\ rpc' = "thrown"
            /\ submitted' = <<>>
            /\ profileIdx' = 0
            /\ attempts' = log
            /\ outcome' = [NoOutcome EXCEPT !.status = "thrown", !.error = step.error]

\* the filter of the revisions that have one; the others have no
\* routeWithRoads and no skippedSquareCoords
filteredOf(rev, route, start) ==
  IF rev \in {"latest", "sequential"} THEN filterRoute(route, start)
  ELSE {[kept |-> <<>>, skipped |-> <<>>]}

\* calculateRoute from the end of the road fetch (from its call, in the
\* inline revision) to its first routing request or to its throw
RunToRequest(fetched, roads) ==
  /\ rpc = "start"
  /\ \E made \in buildWaypoints(revision, squares, roads, startPoint,
                                  roundtrip, fetched) :
     \E filtered \in filteredOf(revision, made.route, startPoint) :
     \E step \in firstStep(revision, made.route, made.waypoints, filtered.kept) :
       /\ roadFetchFailed' = made.failed
       /\ solverCalls' = made.calls
       /\ orderedCells' = made.ordered
       /\ finalRoute' = made.route
       /\ routeWithRoads' = filtered.kept
       /\ skippedSquareCoords' = filtered.skipped
       /\ Proceed(step, attempts)
  /\ UNCHANGED <<revision, squares, roadData, bikeType, lastError, optVars,
                 tspVars, refVars, fetchVars, extVars>>

\* The road fetch completes with the merged roads, some (fetched) or none
RoadFetchWith(fetched, roads) ==
  /\ revision # "inline"
  /\ RunToRequest(fetched, roads)

\* ---- the road fetch of calculateRoute, call by call ----
OVERPASS_INSTANCES ==
  <<"overpass-api.de", "overpass.kumi.systems", "overpass.openstreetmap.ru">>

Sum(f, S) ==
  LET RECURSIVE sumOver(_)
      sumOver(T) == IF T = {} THEN 0
                    ELSE LET x == CHOOSE y \in T : TRUE
                         IN f[x] + sumOver(T \ {x})
  IN sumOver(S)

\* the side of the average a square lies on: the sign of a difference that
\* is 0 is that of the last digits of the doubles
sideOf(diff, positive, other) ==
  IF diff > 0 THEN {positive} ELSE IF diff < 0 THEN {other}
  ELSE {positive, other}

\* the branch of groupSquaresByDirection for latDiff and lonDiff: the
\* groups the square can be pushed to. Where |latDiff| = |lonDiff| the last
\* digits of the doubles decide the test
directionFor(latDiff, lonDiff) ==
  IF Abs(latDiff) > Abs(lonDiff) THEN sideOf(latDiff, "North", "South")
  ELSE IF Abs(latDiff) < Abs(lonDiff) THEN sideOf(lonDiff, "East", "West")
  ELSE sideOf(latDiff, "North", "South") \cup sideOf(lonDiff, "East", "West")

\* groupSquaresByDirection: the group names square k can get. latDiff and
\* lonDiff are taken times the number of squares and in half units (the
\* centre of a square lies on one), which keeps their signs and order
directionOf(sqs, k) ==
  IF Len(sqs) = 1 THEN {"Single"}
  ELSE directionFor(
         Len(sqs) * (sqs[k].lat \div HalfUnit)
           - Sum([i \in 1..Len(sqs) |-> sqs[i].lat \div HalfUnit], 1..Len(sqs)),
         Len(sqs) * (sqs[k].lon \div HalfUnit)
           - Sum([i \in 1..Len(sqs) |-> sqs[i].lon \div HalfUnit], 1..Len(sqs)))

\* the groups in the order they are pushed, each with the indices of its
\* squares, for the group names names[k] of the squares
groupsFor(names) ==
  LET cellsOf(d) == {k \in 1..Len(names) : names[k] = d}
      pushed == SelectSeq(<<"Single", "North", "South", "East", "West">>,
                          LAMBDA d : cellsOf(d) # {})
  IN [g \in 1..Len(pushed) |-> [direction |-> pushed[g], cells |-> cellsOf(pushed[g])]]

\* groupSquaresByDirection(squares): the groupings it can return
groupSquaresByDirection(sqs) ==
  {groupsFor(names) : names \in choices([k \in 1..Len(sqs) |-> directionOf(sqs, k)])}

\* primaryInstances[idx % primaryInstances.length]
primaryInstance(idx) == OVERPASS_INSTANCES[(idx % 2) + 1]

fallbackInstance == OVERPASS_INSTANCES[3]


\* fetchPromises: the first request of every group is in flight
fetchPromises(groups) ==
  [g \in 1..Len(groups) |->
     [direction |-> groups[g].direction, cells |-> groups[g].cells,
      instance |-> primaryInstance(g - 1), requests |-> 1, state |-> "pending"]]

startFetches(sqs) == {fetchPromises(groups) : groups \in groupSquaresByDirection(sqs)}

\* await Promise.all(fetchPromises) resolves
promiseAllResolved(parts) ==
  \A g \in 1..Len(parts) : parts[g].state \notin {"pending", "rejected"}

failedGroups(parts) == {g \in 1..Len(parts) : parts[g].state = "failed"}

\* the fallback fetch of the next failed group is sent
retryNext(parts) ==
  LET g == CHOOSE x \in failedGroups(parts) : \A y \in failedGroups(parts) : x <= y
  IN [parts EXCEPT ![g] = [@ EXCEPT !.state = "retrying",
                                    !.instance = fallbackInstance,
                                    !.requests = 1]]


\* fetchRoadsInArea(bounds, bikeType) as a call of the fetch: it starts with
\* the first instance
areaCall(name, cells, state) ==
  [direction |-> name, cells |-> cells, instance |-> OVERPASS_INSTANCES[1],
   requests |-> IF state = "pending" THEN 1 ELSE 0, state |-> state]

\* the for loop of the sequential revision: the call for the first group is
\* made, the others are to come
sequentialCalls(groups) ==
  [g \in 1..Len(groups) |->
     areaCall(groups[g].direction, groups[g].cells,
              IF g = 1 THEN "pending" ELSE "waiting")]

\* The road fetch where calculateRoute first awaits it: fetchRoadsInArea
\* once for the bounds of all squares (strategies and single-phase
\* revision), once for the first group of squares (sequential revision),
\* fetchRoadsFromInstance for every group at once (latest revision), no call
\* (inline revision)
roadCallsOf(rev, sqs) ==
  CASE rev = "latest" ->
         {[stage |-> "parallel", calls |-> calls] : calls \in startFetches(sqs)}
    [] rev = "sequential" ->
         {[stage |-> "sequential", calls |-> sequentialCalls(groups)] :
            groups \in groupSquaresByDirection(sqs)}
    [] rev = "inline" -> {[stage |-> "idle", calls |-> <<>>]}
    [] OTHER ->
         {[stage |-> "single",
           calls |-> <<areaCall("All", 1..Len(sqs), "pending")>>]}

\* a call settled: it resolved with roads, or it resolved with
\* { success: false } (fetchRoadsFromInstance) or threw (fetchRoadsInArea)
settledCall(part, answer) ==
  [part EXCEPT !.requests = 0,
               !.state = IF answer = "ok" THEN "ok"
                         ELSE IF part.state = "retrying" THEN "gaveUp"
                         ELSE "failed"]

\* the next pass of the for loop of the sequential revision makes its call
callNext(parts, g) ==
  [parts EXCEPT ![g + 1] = [@ EXCEPT !.state = "pending", !.requests = 1]]

\* roads.length > 0 for the merged roads. The servers answer the calls of
\* a calculation alike (roadAnswers), and the calls that succeed give,
\* merged, the road data
gotRoads(parts) ==
  /\ \E g \in 1..Len(parts) : parts[g].state = "ok"
  /\ Len(roadData) > 0

\* calculateRoute after call g settled: Promise.all waits for the other
\* calls; the fallback call of the next failed group is made; the for loop
\* of the sequential revision makes the next call; or the roads are merged
\* and calculateRoute runs on to its first routing request or to its throw
afterCall(parts, g) ==
  IF fstage = "parallel" /\ ~promiseAllResolved(parts)
    THEN /\ partitions' = parts
         /\ UNCHANGED <<fstage, rtVars, optVars, tspVars, refVars, fetchVars,
                        extVars>>
  ELSE IF fstage \in {"parallel", "fallback"} /\ failedGroups(parts) # {}
    THEN /\ partitions' = retryNext(parts)
         /\ fstage' = "fallback"
         /\ UNCHANGED <<rtVars, optVars, tspVars, refVars, fetchVars, extVars>>
  ELSE IF fstage = "sequential" /\ g < Len(parts)
    THEN /\ partitions' = callNext(parts, g)
         /\ UNCHANGED <<fstage, rtVars, optVars, tspVars, refVars, fetchVars,
                        extVars>>
  ELSE /\ partitions' = parts
       /\ fstage' = "merged"
       /\ RoadFetchWith(gotRoads(parts), roadData)

\* Call g of the road fetch settles with the answer. The servers answer the
\* calls of a calculation in the order they were made; the partitions model
\* below follows every order, and every answer
RoadFetch(g, answer) ==
  /\ fstage \in {"single", "sequential", "parallel", "fallback"}
  /\ answer \in roadAnswers
  /\ partitions[g].state \in {"pending", "retrying"}
  /\ \A h \in 1..(g - 1) : partitions[h].state # "pending"
  /\ roadAnswers' = roadAnswers
  /\ afterCall([partitions EXCEPT ![g] = settledCall(@, answer)], g)

\* a call resolves with roads
FetchRoadsSucceeds == \E g \in 1..Len(partitions) : RoadFetch(g, "ok")

\* a call resolves with { success: false } or throws
FetchRoadsFails == \E g \in 1..Len(partitions) : RoadFetch(g, "failed")

\* the inline revision fetches no roads
SolveOnCenters ==
  /\ revision = "inline"
  /\ RunToRequest(FALSE, <<>>)
  /\ UNCHANGED partVars

\* callBRouterAPI resolves. The result of the inline revision has no
\* roadAware and no minimal property, and simplified only after the last
\* attempt; a property that is missing is FALSE here
BRouterSucceeds ==
  /\ rpc = "awaitBRouter"
  /\ rpc' = "returned"
  /\ attempts' = markLast(attempts, "ok")
  /\ outcome' = [status |-> "returned", error |-> "none",
                 profileUsed |-> tierProfiles(revision, bikeType, tier)[profileIdx],
                 roadAware |-> revision # "inline" /\ ~roadFetchFailed,
                 simplified |-> IF revision = "inline" THEN tier = "minimal"
                                ELSE tier \in {"simplified", "minimal"},
                 minimal |-> revision # "inline" /\ tier = "minimal"]
  /\ UNCHANGED <<revision, squares, roadData, bikeType, roadFetchFailed, finalRoute,
                 finalWaypoints, routeWithRoads, skippedSquareCoords, currentLevel,
                 tier, profileIdx, submitted, lastError, solverCalls,
                 orderedCells, optVars,
                 tspVars, refVars, fetchVars, partVars, extVars>>

\* the next pass of a profile loop, or the code after the loop
nextProfile(log, fw) ==
  /\ profileIdx' = profileIdx + 1
  /\ tier' = "profiles"
  /\ submitted' = fw
  /\ attempts' = Append(log,
       attemptOf(fw, tierProfiles(revision, bikeType, "profiles")[profileIdx + 1],
                 profileIdx + 1, "profiles", currentLevel))
  /\ UNCHANGED <<rpc, outcome>>

\* callBRouterAPI rejects with error in tryProfilesWithFallback: its catch,
\* and the code after the call when the loop ends
TierFails(error) ==
  /\ lastError' = error
  /\ IF ~stopsProfileLoop(error)
        /\ profileIdx < Len(tierProfiles(revision, bikeType, tier))
       THEN /\ profileIdx' = profileIdx + 1
            /\ attempts' = Append(markLast(attempts, error),
                 attemptOf(submitted,
                           tierProfiles(revision, bikeType, tier)[profileIdx + 1],
                           profileIdx + 1, tier, currentLevel))
            /\ UNCHANGED <<rpc, tier, currentLevel, finalWaypoints, submitted, outcome>>
       ELSE \E step \in afterTierFailed(revision, tier, error, finalWaypoints,
                                        currentLevel, finalRoute) :
              Proceed(step, markLast(attempts, error))

\* the inline revision after the loop over the profiles
afterProfiles(log) ==
  \E step \in {minimalStep(tier, currentLevel, finalWaypoints)} : Proceed(step, log)

\* callBRouterAPI rejects with error in the loop of the inline revision
\* (part_010:656-714). In the catch of a pass: after a coverage error below
\* simplificationLevel 3, tryMoreAggressive and the same profile once more
\* (tier "retry"); after the retry failed, or without one, the loop breaks
\* unless the error of the pass, not that of the retry, was a coverage
\* error. The error of the last attempt is logged and dropped.
InlineFails(error) ==
  IF tier = "profiles"
    THEN /\ lastError' = error
         /\ IF isCoverageError(error) /\ currentLevel + 1 < 3
              THEN \E next \in moreAggressive(finalRoute, currentLevel,
                                              finalWaypoints) :
                     /\ tier' = "retry"
                     /\ currentLevel' = next.level
                     /\ finalWaypoints' = next.waypoints
                     /\ submitted' = next.waypoints
                     /\ attempts' = Append(markLast(attempts, error),
                          attemptOf(next.waypoints,
                                    tierProfiles(revision, bikeType, tier)[profileIdx],
                                    profileIdx, "retry", next.level))
                     /\ UNCHANGED <<rpc, profileIdx, outcome>>
            ELSE IF isCoverageError(error)
                    /\ profileIdx < Len(tierProfiles(revision, bikeType, tier))
              THEN /\ nextProfile(markLast(attempts, error), finalWaypoints)
                   /\ UNCHANGED <<currentLevel, finalWaypoints>>
            ELSE afterProfiles(markLast(attempts, error))
  ELSE IF tier = "retry"
    THEN /\ lastError' = error
         /\ IF profileIdx < Len(tierProfiles(revision, bikeType, tier))
              THEN /\ nextProfile(markLast(attempts, error), finalWaypoints)
                   /\ UNCHANGED <<currentLevel, finalWaypoints>>
              ELSE afterProfiles(markLast(attempts, error))
  ELSE /\ lastError' = lastError
       /\ \E step \in {throwStep(tier, currentLevel, finalWaypoints,
                                 "routing failed")} :
            Proceed(step, markLast(attempts, error))

\* callBRouterAPI rejects with error
BRouterFails(error) ==
  /\ rpc = "awaitBRouter"
  /\ IF revision = "inline" THEN InlineFails(error) ELSE TierFails(error)
  /\ UNCHANGED <<revision, squares, roadData, bikeType, roadFetchFailed, finalRoute,
                 routeWithRoads, skippedSquareCoords, solverCalls,
                 orderedCells, optVars,
                 tspVars, refVars, fetchVars, partVars, extVars>>

BRouterCoverageError == BRouterFails("not mapped")

BRouterGenericError == BRouterFails("other")

\* ---- inputs of the router model ----
MaxSquares == 4       \* short requests have 1..MaxSquares cells
LongRequest == 20     \* the long request (one way) has this many cells

BikeTypes == {"trekking", "gravel"}

\* The cells of a request: cell k lies in column k of the grid, the first
\* two in row 0 and the later ones in rows 1 and 0 in turn, so that no three
\* cells of a short request lie on one line. Each cell is CellSpan wide
\* (0.006 degrees, about 410 m west to east).
cellRow(k) == IF k >= 3 /\ k % 2 = 1 THEN 1 ELSE 0

centerLat(k) == 60 + CellSpan * cellRow(k)

\* the grid coordinates of cell k, which the optimizer proposed it under
gridCoordsOf(k) == <<cellRow(k), k>>

\* extractProposedSquares(proposedLayer, proposedMetadata): RouteControls
\* passes store.proposedMetadata, which the store does not have, so the
\* metadata are the empty default and gridCoords of every square is
\* undefined (RouteControls.vue:46, appStore.js, part_009:63-89)
squaresOf(n) ==
  [k \in 1..n |-> squareAt(centerLat(k), CellSpan * k, NoGridCoords)]

\* a road south of the cells, in no cell
strayRoad == [a |-> <<0, -60>>, b |-> <<60, -60>>]

\* how far north of the centre of cell k its road lies (-11..11 units, up to
\* 60 m), different from cell to cell
roadOffset(k) == ((k * k * 7) % 23) - 11

\* Road data with one road inside every cell except those in missing, from
\* west to east
RECURSIVE rowRoadsFrom(_, _, _)
rowRoadsFrom(n, missing, k) ==
  IF k > n THEN <<strayRoad>>
  ELSE (IF k \in missing THEN <<>>
        ELSE << [a |-> <<CellSpan * k - 40, centerLat(k) + roadOffset(k)>>,
                 b |-> <<CellSpan * k + 40, centerLat(k) + roadOffset(k)>>] >>)
       \o rowRoadsFrom(n, missing, k + 1)

rowRoads(n, missing) == rowRoadsFrom(n, missing, 1)

\* Road data with two roads from south to north inside every cell, one
\* 10 units west and one 20 units east of the centre
twoRoads(n) ==
  [m \in 1..(2 * n) |->
     LET k == (m + 1) \div 2
     IN IF m % 2 = 1
          THEN [a |-> <<CellSpan * k - 10, centerLat(k) - 40 + roadOffset(k)>>,
                b |-> <<CellSpan * k - 10, centerLat(k) + 20 + roadOffset(k)>>]
          ELSE [a |-> <<CellSpan * k + 20, centerLat(k) - 10 - roadOffset(k)>>,
                b |-> <<CellSpan * k + 20, centerLat(k) + 30 - roadOffset(k)>>]]

\* Road data with one road that runs through every cell of row 0, rising
\* one unit to the north in ten to the east
throughRoad(n) ==
  << [a |-> <<80, 40>>, b |-> <<CellSpan * n + 40, 36 + 12 * n>>] >>

\* Road data whose only road for the first two cells runs along the border
\* the two cells share
borderRoads(n) ==
  << [a |-> <<CellSpan + 60, 30>>, b |-> <<CellSpan + 60, 90>>] >>
  \o rowRoads(n, {1, 2})

BorderRequest == 3    \* cells of the request with the border road

\* every cell has a road, none has, or exactly one has none
MissingChoices(n) == {{}, 1..n} \cup {{k} : k \in 1..n}

\* the road data of a request of n cells
RoadChoices(n) ==
  {rowRoads(n, missing) : missing \in MissingChoices(n)}
    \cup {twoRoads(n), throughRoad(n)}

\* a start point west of the cells, one 0.00005 degrees from the centre of
\* the first cell, one 0.00005 degrees from the midpoint of the road of the
\* first cell, one 0.0001 degrees east of the centre of the first cell, and
\* one east of the cells
westStart == unitPoint(100, 0)
centerStart == unitPoint(61, CellSpan + 1)
roadStart == unitPoint(centerLat(1) + roadOffset(1) + 1, CellSpan - 1)
toleranceStart == unitPoint(60, CellSpan + 2)
eastStart == unitPoint(100, 900)

RouterStarts == {westStart, centerStart, roadStart, toleranceStart, eastStart}

\* the start points a revision is run with: all of them for the latest
\* revision, and for the others those that make a difference to them
StartsOf(rev) ==
  CASE rev = "latest" -> RouterStarts
    [] rev = "strategies" -> {westStart, roadStart}
    [] rev = "sequential" -> {centerStart, toleranceStart}
    [] rev = "single-phase" -> {roadStart}
    [] OTHER -> {roadStart, eastStart}

\* the road data of a request of n cells a revision is run with; the inline
\* revision reads none
RoadChoicesOf(rev, n) ==
  IF rev = "inline" THEN {rowRoads(n, {})} ELSE RoadChoices(n)

InitRouter ==
  /\ ExtIdle
  /\ rpc = "start"
  /\ revision \in Revisions
  /\ bikeType \in BikeTypes
  /\ startPoint \in StartsOf(revision)
  /\ roundtrip \in BOOLEAN
  /\ \/ \E n \in 1..MaxSquares :
          squares = squaresOf(n) /\ roadData \in RoadChoicesOf(revision, n)
     \/ /\ ~roundtrip /\ startPoint = roadStart
        /\ squares = squaresOf(LongRequest)
        /\ roadData = rowRoads(LongRequest, {})
     \/ /\ revision # "inline"
        /\ squares = squaresOf(BorderRequest)
        /\ roadData = borderRoads(BorderRequest)
  /\ roadFetchFailed = FALSE /\ finalRoute = <<>> /\ finalWaypoints = <<>>
  /\ routeWithRoads = <<>> /\ skippedSquareCoords = <<>> /\ currentLevel = -1
  /\ tier = "none" /\ profileIdx = 0 /\ submitted = <<>> /\ lastError = "none"
  /\ attempts = <<>> /\ outcome = NoOutcome /\ solverCalls = <<>>
  /\ orderedCells = <<>>
  /\ \E fetch \in roadCallsOf(revision, squares) :
       fstage = fetch.stage /\ partitions = fetch.calls
  /\ roadAnswers \in (IF revision = "inline" THEN {{}}
                       ELSE {{"ok"}, {"failed"}})
  /\ OptimizerIdle /\ TspSolverIdle /\ RefinementIdle
  /\ fpc = "idle" /\ fetcher = "none" /\ maxRetries = 0 /\ instanceIdx = 0
  /\ attempt = 0 /\ totalAttempts = 0 /\ lastFetchError = "none"
  /\ requests = <<>>

NextRouter ==
  \/ FetchRoadsSucceeds
  \/ FetchRoadsFails
  \/ SolveOnCenters
  \/ BRouterSucceeds
  \/ BRouterCoverageError
  \/ BRouterGenericError

SpecRouter == InitRouter /\ [][NextRouter]_vars


\* ========================================================================
\* The refinement loop of calculateRoute (phase 3), one round per step, on
\* routes whose waypoints may carry alternatives (the input refineCandidates
\* documents)
\* ========================================================================
MaxRefineWaypoints == 3   \* short routes have 1..MaxRefineWaypoints waypoints
DeepAlternatives == 17    \* alternatives of each waypoint of the deep route

\* a candidate and a waypoint, lat units north and lon units east of the
\* origin
candidateAt(lat, lon) ==
  [lat |-> lat * Unit, lon |-> lon * Unit, type |-> "midpoint"]

waypointAt(lat, lon, index, alts) ==
  [lat |-> lat * Unit, lon |-> lon * Unit, squareIndex |-> index,
   hasRoad |-> TRUE, type |-> "intersection", isConnecting |-> FALSE,
   gridCoords |-> NoGridCoords, alternatives |-> alts]

\* A waypoint of a short route, 0.01 degrees (0.69 km) east of the previous
\* one. On the line of the route: with no alternative, or with one that is
\* 0.0015 degrees (167 m) north of it. 0.003 degrees (334 m) north of the
\* line: with one alternative half way to the line, or with two, the first
\* further north and the second on the line
RefineShapes ==
  {[lat |-> 0, alts |-> <<>>], [lat |-> 0, alts |-> <<30>>],
   [lat |-> 60, alts |-> <<30>>], [lat |-> 60, alts |-> <<90, 0>>]}

shortRoute(shapes, order) ==
  [i \in 1..Len(shapes) |->
     waypointAt(shapes[i].lat, 200 * order[i], i - 1,
                [k \in 1..Len(shapes[i].alts) |->
                   candidateAt(shapes[i].alts[k], 200 * order[i])])]

\* the orders the waypoints come in: west to east, or the first two swapped
RefineOrders(n) ==
  {[i \in 1..n |-> i]} \cup
  (IF n >= 2 THEN {[i \in 1..n |-> IF i = 1 THEN 2 ELSE IF i = 2 THEN 1 ELSE i]}
   ELSE {})

\* Three waypoints 0.0085 degrees (945 m) north of the line, each with
\* DeepAlternatives alternatives that step down to the line 0.0005 degrees
\* (56 m) at a time
deepRoute ==
  [i \in 1..3 |->
     waypointAt(10 * DeepAlternatives, 100 * i, i - 1,
                [k \in 1..DeepAlternatives |->
                   candidateAt(10 * (DeepAlternatives - k), 100 * i)])]

\* Two waypoints, the first with an alternative that shortens the route by
\* 0.001 km to the tenth of a micrometre, where the last digits of the
\* lengths decide whether refineCandidates swaps
swapEdgeRoute ==
  <<waypointAt(292, 160, 0, <<candidateAt(179, 606)>>),
    waypointAt(0, 400, 1, <<>>)>>

\* Three waypoints that 2-opt reorders to a route shorter by 0.01 km to the
\* micrometre, where the last digits decide whether the loop goes on
stopEdgeRoute ==
  <<waypointAt(328, 1100, 0, <<>>), waypointAt(379, 1198, 1, <<>>),
    waypointAt(0, 600, 2, <<>>)>>

RefineStart == unitPoint(0, 0)

loopRoute(waypoints, rt) ==
  <<startWaypoint(RefineStart)>> \o waypoints
    \o (IF rt THEN <<startWaypoint(RefineStart)>> ELSE <<>>)

InitRefine ==
  /\ ExtIdle
  /\ \E rt \in BOOLEAN :
       \/ \E n \in 1..MaxRefineWaypoints :
            \E shapes \in [1..n -> RefineShapes] : \E order \in RefineOrders(n) :
              refinement = refinementStart(loopRoute(shortRoute(shapes, order), rt))
       \/ refinement = refinementStart(loopRoute(deepRoute, rt))
       \/ \E route \in {swapEdgeRoute, stopEdgeRoute} :
            ~rt /\ refinement = refinementStart(loopRoute(route, rt))
  /\ OptimizerIdle /\ TspIdle /\ RouterIdle /\ FetcherIdle

\* one pass through the body of the for loop
RefinementRound ==
  /\ ~refinement.ended
  /\ refinement' \in refinementRound(refinement)
  /\ UNCHANGED <<optVars, tspVars, rtVars, fetchVars, partVars, extVars>>

NextRefine == RefinementRound

SpecRefine == InitRefine /\ [][NextRefine]_vars

\* C14: the refinement loop has ended as soon as a round produced no
\* alternative swap and no 2-opt improvement, and in any case once
\* MaxRefinementRounds rounds were begun
C14_RefinementEnds ==
  /\ refinement.round <= MaxRefinementRounds
  /\ (refinement.round = MaxRefinementRounds => refinement.ended)
  /\ (refinement.round >= 1 /\ refinement.swaps = 0 /\ refinement.gain <= 0
        => refinement.ended)

\* C28: in every round of the refinement loop the straight-line length of
\* the route does not grow: not with any accepted swap of refineCandidates,
\* and not, for certain, with the 2-opt run that follows.
C28_LengthNeverGrows ==
  refinement # NoRefinement /\ refinement.round >= 1 =>
    /\ \A k \in 1..(Len(refinement.lengths) - 1) :
         micrometresBetween(refinement.lengths[k + 1], refinement.lengths[k]) >= 0
    /\ Len(refinement.lengths) = refinement.swaps + 1
    /\ ~surelyLess(refinement.lengths[Len(refinement.lengths)],
                   calculateRouteDistance(refinement.route), 4)

\* C28 witness: a round that swapped candidates and whose 2-opt run
\* shortened the route further
C28_Witness ==
  /\ refinement.round >= 1 /\ refinement.swaps > 0
  /\ refinement.gain > tolerance(4)

\* the loop was cut off after its last round although that round still
\* swapped candidates
C14_Witness ==
  /\ refinement.round = MaxRefinementRounds /\ refinement.ended
  /\ refinement.swaps > 0

\* the loop ended early, in a round without swap and without improvement
\* that followed a round with swaps
C14_WitnessEarly ==
  /\ refinement.round \in 2..(MaxRefinementRounds - 1) /\ refinement.ended
  /\ refinement.swaps = 0 /\ refinement.gain = 0


\* ========================================================================
\* fetchRoadsInArea (road-fetcher.js), one HTTP response or timer per step.
\* fetcher = "instances": src/src/logic/road-fetcher.js;
\* fetcher = "single": the revision with one server, src/unnamed/part_011
\* ========================================================================
instancesOf(rev) == IF rev = "instances" THEN OVERPASS_INSTANCES
                    ELSE <<"overpass-api.de">>

\* What a request can come back with: roads, an empty result, 504, 429, a
\* network failure (TypeError) or another HTTP error
Responses == {"roads", "empty", "504", "429", "network", "http-error"}

\* Mutant: retries are not counted
retriesRemain_Always(att, retries) == TRUE

\* attempt <= maxRetries
retriesRemain(att, retries) == att <= retries

\* error.shouldRetry || error.name === 'TypeError' for the error the response
\* makes the try block throw
shouldRetry(rev, response) ==
  IF rev = "instances" THEN response \in {"empty", "504", "429", "network"}
  ELSE response \in {"empty", "504", "network"}

\* whether the try block returns for this response
returnsRoads(rev, response, att, retries) ==
  \/ response = "roads"
  \/ rev = "single" /\ response = "empty" /\ att > retries

\* whether the try block throws for this response (it does not for an empty
\* result of the last attempt on an instance: that one breaks out of the loop)
throwsError(response, att, retries) ==
  response # "empty" \/ retriesRemain(att, retries)

requestOf(idx, att) == [instance |-> idx, attempt |-> att]

MaxRetriesBound == 2     \* maxRetries is 0..MaxRetriesBound

InitRoadFetch ==
  /\ ExtIdle
  /\ fpc = "request"
  /\ fetcher \in {"instances", "single"}
  /\ maxRetries \in 0..MaxRetriesBound
  /\ instanceIdx = 0 /\ attempt = 1 /\ totalAttempts = 1
  /\ lastFetchError = "none"
  /\ requests = <<requestOf(0, 1)>>
  /\ PartitionsIdle
  /\ OptimizerIdle /\ TspIdle /\ RouterIdle /\ RefinementIdle

\* the request in flight is answered; the function runs on to its return, to
\* its throw, to the retry delay, or to the first request to the next instance
RequestAnswered(response) ==
  /\ fpc = "request"
  /\ IF returnsRoads(fetcher, response, attempt, maxRetries)
       THEN /\ fpc' = "returned"
            /\ UNCHANGED <<instanceIdx, attempt, totalAttempts, lastFetchError,
                           requests>>
     ELSE /\ lastFetchError' = IF throwsError(response, attempt, maxRetries)
                                 THEN response ELSE lastFetchError
          /\ IF shouldRetry(fetcher, response) /\ retriesRemain(attempt, maxRetries)
               THEN /\ fpc' = "delay"
                    /\ UNCHANGED <<instanceIdx, attempt, totalAttempts, requests>>
             ELSE IF instanceIdx + 1 < Len(instancesOf(fetcher))
               THEN /\ fpc' = "request"
                    /\ instanceIdx' = instanceIdx + 1
                    /\ attempt' = 1
                    /\ totalAttempts' = totalAttempts + 1
                    /\ requests' = Append(requests, requestOf(instanceIdx + 1, 1))
             ELSE /\ fpc' = "thrown"
                  /\ UNCHANGED <<instanceIdx, attempt, totalAttempts, requests>>
  /\ UNCHANGED <<fetcher, maxRetries, optVars, tspVars, rtVars, refVars,
                 partVars, extVars>>

RespondsRoads == RequestAnswered("roads")
RespondsEmpty == RequestAnswered("empty")
Responds504 == RequestAnswered("504")
Responds429 == RequestAnswered("429")
RespondsNetworkError == RequestAnswered("network")
RespondsHttpError == RequestAnswered("http-error")

\* the retry delay is over: "continue", the loop test, and the next request
\* to the same instance
RetryDelayOver ==
  /\ fpc = "delay"
  /\ IF retriesRemain(attempt, maxRetries)
       THEN /\ fpc' = "request"
            /\ attempt' = attempt + 1
            /\ totalAttempts' = totalAttempts + 1
            /\ requests' = Append(requests, requestOf(instanceIdx, attempt + 1))
            /\ UNCHANGED instanceIdx
     ELSE IF instanceIdx + 1 < Len(instancesOf(fetcher))
       THEN /\ fpc' = "request"
            /\ instanceIdx' = instanceIdx + 1
            /\ attempt' = 1
            /\ totalAttempts' = totalAttempts + 1
            /\ requests' = Append(requests, requestOf(instanceIdx + 1, 1))
     ELSE /\ fpc' = "thrown"
          /\ UNCHANGED <<instanceIdx, attempt, totalAttempts, requests>>
  /\ UNCHANGED <<fetcher, maxRetries, lastFetchError, optVars, tspVars, rtVars,
                 refVars, partVars, extVars>>

NextRoadFetch ==
  \/ RespondsRoads
  \/ RespondsEmpty
  \/ Responds504
  \/ Responds429
  \/ RespondsNetworkError
  \/ RespondsHttpError
  \/ RetryDelayOver

SpecRoadFetch == InitRoadFetch /\ [][NextRoadFetch]_vars

requestsTo(idx) == {k \in 1..Len(requests) : requests[k].instance = idx}

\* C17: a road-data fetch makes at most maxRetries + 1 requests to one
\* instance, never goes back to an earlier instance, and so has made at most
\* instances * (maxRetries + 1) requests whenever it returns or throws
C17_BoundedRequests ==
  /\ \A idx \in 0..(Len(instancesOf(fetcher)) - 1) :
       Cardinality(requestsTo(idx)) <= maxRetries + 1
  /\ \A k \in 1..(Len(requests) - 1) :
       requests[k].instance <= requests[k + 1].instance
  /\ Len(requests) <= Len(instancesOf(fetcher)) * (maxRetries + 1)
  /\ totalAttempts = Len(requests)

\* every instance was asked maxRetries + 1 times and the fetch gave up
C17_Witness ==
  /\ fpc = "thrown" /\ fetcher = "instances" /\ maxRetries = MaxRetriesBound
  /\ Len(requests) = Len(OVERPASS_INSTANCES) * (maxRetries + 1)


\* ========================================================================
\* The parallel road fetch of calculateRoute (latest revision), one response
\* of a road-data server per step, and calculateRoute after it.
\* fetchRoadsFromInstance is imported from road-fetcher.js, whose revision
\* with that function is not among the sources: what a call of it does is
\* taken from its use in calculateRoute (a promise of { success, roads })
\* and from the retry rule of fetchRoadsInArea; whether the promise can
\* reject is not known, so it can.
\* ========================================================================
\* maxRetries handed to fetchRoadsFromInstance
PartitionMaxRetries == 2

\* fetchRoadsFromInstance after a response: it resolves with roads, sends
\* another request to the same instance, resolves with { success: false },
\* or rejects. requests counts the requests of the call that is running; it
\* is gone when the call has settled
afterResponse(part, answer, failedState) ==
  IF answer = "rejected" THEN [part EXCEPT !.state = "rejected", !.requests = 0]
  ELSE IF answer = "ok" THEN [part EXCEPT !.state = "ok", !.requests = 0]
  ELSE IF retriesRemain(part.requests, PartitionMaxRetries)
    THEN [part EXCEPT !.requests = @ + 1]
    ELSE [part EXCEPT !.state = failedState, !.requests = 0]

\* a fetch rejected: Promise.all(fetchPromises) rejects with the first
\* rejection, and so does the await of a fallback fetch
promiseRejected(parts) ==
  \E g \in 1..Len(parts) : parts[g].state = "rejected"

\* calculateCombinedBounds(group.squares.map(s => s.bounds)), as a square
groupBounds(cells) ==
  [lat |-> 0, lon |-> 0, gridCoords |-> NoGridCoords,
   bounds |-> <<-SetMax({-squares[k].bounds[1] : k \in cells}),
                -SetMax({-squares[k].bounds[2] : k \in cells}),
                SetMax({squares[k].bounds[3] : k \in cells}),
                SetMax({squares[k].bounds[4] : k \in cells})>>]

\* result.roads of a group whose fetch succeeded: the roads of the road
\* data that reach into the bounds of the group
groupRoads(part) ==
  IF part.state = "ok"
    THEN SelectSeq(roadData,
                   LAMBDA r : TRUE \in booleanIntersects(r, groupBounds(part.cells)))
    ELSE <<>>

\* the merged roads: the roads of the results in order, each road once
RECURSIVE mergedRoadsFrom(_, _, _)
mergedRoadsFrom(parts, g, merged) ==
  IF g > Len(parts) THEN merged
  ELSE mergedRoadsFrom(parts, g + 1,
         merged \o SelectSeq(groupRoads(parts[g]),
                             LAMBDA r : r \notin SeqToSet(merged)))

mergedRoads(parts) == mergedRoadsFrom(parts, 1, <<>>)

hasRoads(roads) == Len(roads) > 0

\* after a fetch settled: the catch block after a rejection, with
\* calculateRoute running on from it with its centre fallback while the
\* other fetches stay in flight; else wait for the others, send the next
\* fallback fetch, or merge and run calculateRoute on to its first routing
\* request
afterSettled(parts) ==
  IF promiseRejected(parts)
    THEN /\ partitions' = parts
         /\ fstage' = "caught"
         /\ RoadFetchWith(FALSE, <<>>)
  ELSE IF fstage = "parallel" /\ ~promiseAllResolved(parts)
    THEN /\ partitions' = parts
         /\ UNCHANGED <<fstage, rtVars>>
  ELSE IF failedGroups(parts) # {}
    THEN /\ partitions' = retryNext(parts)
         /\ fstage' = "fallback"
         /\ UNCHANGED rtVars
  ELSE /\ partitions' = parts
       /\ fstage' = "merged"
       /\ \E roads \in {mergedRoads(parts)} : RoadFetchWith(hasRoads(roads), roads)

\* a primary instance answers the request of group g. After the catch block
\* the fetches in flight go on, and nothing waits for them
PrimaryResponds(g, answer) ==
  /\ fstage \in {"parallel", "caught"}
  /\ answer \in roadAnswers /\ roadAnswers' = roadAnswers
  /\ g \in 1..Len(partitions) /\ partitions[g].state = "pending"
  /\ \E part \in {afterResponse(partitions[g], answer, "failed")} :
       IF part.state = "pending" \/ fstage = "caught"
         THEN partitions' = [partitions EXCEPT ![g] = part]
              /\ UNCHANGED <<fstage, rtVars>>
         ELSE afterSettled([partitions EXCEPT ![g] = part])
  /\ UNCHANGED <<optVars, tspVars, refVars, fetchVars, extVars>>

PrimarySucceeds == \E g \in 1..Len(partitions) : PrimaryResponds(g, "ok")

PrimaryFails == \E g \in 1..Len(partitions) : PrimaryResponds(g, "failed")

PrimaryRejects == \E g \in 1..Len(partitions) : PrimaryResponds(g, "rejected")

\* the fallback instance answers the request of the group being retried
FallbackResponds(answer) ==
  /\ fstage = "fallback"
  /\ answer \in roadAnswers /\ roadAnswers' = roadAnswers
  /\ \E g \in 1..Len(partitions) :
       /\ partitions[g].state = "retrying"
       /\ \E part \in {afterResponse(partitions[g], answer, "gaveUp")} :
            IF part.state = "retrying"
              THEN partitions' = [partitions EXCEPT ![g] = part]
                   /\ UNCHANGED <<fstage, rtVars>>
              ELSE afterSettled([partitions EXCEPT ![g] = part])
  /\ UNCHANGED <<optVars, tspVars, refVars, fetchVars, extVars>>

FallbackSucceeds == FallbackResponds("ok")

FallbackFails == FallbackResponds("failed")

FallbackRejects == FallbackResponds("rejected")

\* ---- inputs ----
MaxPartitionCells == 3

\* cells on the four arms of a cross around the origin, the first of each
\* arm CellSpan from it
crossSquares(n) ==
  [k \in 1..n |->
     LET arm == (k - 1) % 4
         d == CellSpan * (((k - 1) \div 4) + 1)
     IN squareAt(IF arm = 0 THEN d ELSE IF arm = 1 THEN 0 - d ELSE 0,
                 IF arm = 2 THEN d ELSE IF arm = 3 THEN 0 - d ELSE 0,
                 NoGridCoords)]

\* two cells that touch at a corner: each lies as far north or south of the
\* average as east or west of it
cornerSquares ==
  <<squareAt(0, 0, NoGridCoords), squareAt(CellSpan, CellSpan, NoGridCoords)>>

PartitionSquares ==
  {crossSquares(n) : n \in 1..MaxPartitionCells} \cup {cornerSquares}

\* one road inside every cell, from west to east and 0.00015 degrees (17 m)
\* north of its centre
crossRoads(sqs) ==
  [k \in 1..Len(sqs) |->
     [a |-> <<sqs[k].lon \div Unit - 40, sqs[k].lat \div Unit + 3>>,
      b |-> <<sqs[k].lon \div Unit + 40, sqs[k].lat \div Unit + 3>>]]

InitPartitions ==
  /\ ExtIdle
  /\ rpc = "start" /\ revision = "latest"
  /\ bikeType \in BikeTypes
  /\ \E sqs \in PartitionSquares :
       /\ squares = sqs
       /\ roadData = crossRoads(sqs)
       /\ partitions \in startFetches(sqs)
  /\ fstage = "parallel"
  /\ roadAnswers = {"ok", "failed", "rejected"}
  /\ startPoint = unitPoint(20, 20)
  /\ roundtrip \in BOOLEAN
  /\ roadFetchFailed = FALSE /\ finalRoute = <<>> /\ finalWaypoints = <<>>
  /\ routeWithRoads = <<>> /\ skippedSquareCoords = <<>> /\ currentLevel = -1
  /\ tier = "none" /\ profileIdx = 0 /\ submitted = <<>> /\ lastError = "none"
  /\ attempts = <<>> /\ outcome = NoOutcome /\ solverCalls = <<>>
  /\ orderedCells = <<>>
  /\ OptimizerIdle /\ TspSolverIdle /\ RefinementIdle
  /\ fpc = "idle" /\ fetcher = "none" /\ maxRetries = 0 /\ instanceIdx = 0
  /\ attempt = 0 /\ totalAttempts = 0 /\ lastFetchError = "none"
  /\ requests = <<>>

NextPartitions ==
  \/ PrimarySucceeds
  \/ PrimaryFails
  \/ PrimaryRejects
  \/ FallbackSucceeds
  \/ FallbackFails
  \/ FallbackRejects
  \/ BRouterSucceeds
  \/ BRouterCoverageError
  \/ BRouterGenericError

SpecPartitions == InitPartitions /\ [][NextPartitions]_vars

\* a fetch that has not come to its end: a request of it is in flight, or
\* its fallback retry is still to come
unfinished(part) == part.state \in {"pending", "failed", "retrying"}

\* C16 (as claimed): once calculateRoute has called the solver (the
\* refinement loop comes after that call) or has sent a routing request,
\* every group's road fetch, fallback retries included, has come to its end
\* and the roads are merged
C16_FetchesDoneBeforeRouting ==
  (fstage # "idle" /\ (solverCalls # <<>> \/ attempts # <<>>
                        \/ rpc \in {"awaitBRouter", "returned", "thrown"})) =>
    /\ fstage = "merged"
    /\ \A g \in 1..Len(partitions) : ~unfinished(partitions[g])


\* ------------------------------------------------------------------------
\* Properties of calculateRoute
\* ------------------------------------------------------------------------
Attempts == 1..Len(attempts)

\* the simplification threshold (millimetres) an attempt's waypoint list was made
\* with, 0 for a list that was not simplified by threshold
thresholdOf(k) ==
  IF attempts[k].tier # "minimal" /\ attempts[k].level >= 0
    THEN levels[attempts[k].level + 1] ELSE 0

profilesOf(k) == tierProfiles(revision, bikeType, attempts[k].tier)

\* C5 (as claimed): when every attempt is answered with a coverage error,
\* lists simplified with 0.5 km, 1.0 km and 1.5 km are attempted in that
\* order, all of them before the minimal-skeleton attempt.
C5_AllThresholdsBeforeMinimal ==
  (/\ revision = "strategies" /\ rpc = "thrown" /\ attempts # <<>>
   /\ \A k \in Attempts : attempts[k].response = "not mapped")
  => \E a, b, c \in Attempts :
       /\ a < b /\ b < c
       /\ thresholdOf(a) = levels[1] /\ thresholdOf(b) = levels[2]
       /\ thresholdOf(c) = levels[3]
       /\ \A m \in Attempts : attempts[m].tier = "minimal" => c < m

\* C6 (as claimed): after a generic failure the same waypoint list is
\* retried with the next alternate profile, for every alternate profile.
C6_GenericRetriesProfiles ==
  \A k \in Attempts :
    (attempts[k].response = "other" /\ attempts[k].attemptNumber < Len(profilesOf(k)))
    => /\ k < Len(attempts)
       /\ attempts[k + 1].waypoints = attempts[k].waypoints
       /\ attempts[k + 1].profile = profilesOf(k)[attempts[k].attemptNumber + 1]

\* C7 (as claimed): a coverage error never causes a retry of the same
\* waypoint list with another profile.
C7_CoverageNeverRetriesProfile ==
  \A k \in Attempts :
    (attempts[k].response = "not mapped" /\ k < Len(attempts))
    => ~(/\ attempts[k + 1].waypoints = attempts[k].waypoints
         /\ attempts[k + 1].profile # attempts[k].profile)

\* C8 (as claimed): a routing failure is thrown only after every alternate
\* profile, every simplification threshold and the minimal skeleton have
\* been attempted and have failed.
C8_FailureOnlyAfterEveryTier ==
  (rpc = "thrown" /\ outcome.error = "routing failed")
  => /\ \A q \in 1..Len(profilesToTry(revision, bikeType)) :
          \E k \in Attempts : attempts[k].profile = profilesToTry(revision, bikeType)[q]
     /\ \A t \in 1..Len(levels) : \E k \in Attempts : thresholdOf(k) = levels[t]
     /\ \E k \in Attempts : attempts[k].tier = "minimal"
     /\ \A k \in Attempts : attempts[k].response \in {"not mapped", "other"}

\* C9 (as claimed): after a failed road fetch the calculation does not fail
\* for that reason: a route request through the cell centres is submitted.
C9_FetchFailureStillRoutes ==
  roadFetchFailed
  => /\ attempts # <<>>
     /\ \E i \in 1..Len(attempts[1].waypoints) :
          attempts[1].waypoints[i].type = "center-fallback"

inRouteWithRoads(wp) == \E k \in 1..Len(routeWithRoads) : routeWithRoads[k] = wp

inSkipped(wp) ==
  \E k \in 1..Len(skippedSquareCoords) :
    /\ skippedSquareCoords[k].squareIndex = wp.squareIndex
    /\ skippedSquareCoords[k].lat = wp.lat /\ skippedSquareCoords[k].lon = wp.lon

\* C10 (as claimed): a cell waypoint is left out of the submitted list and
\* listed in skippedSquareCoords if and only if its hasRoad flag is false.
C10_SkippedIffNoRoad ==
  (revision = "latest" /\ rpc \in {"awaitBRouter", "returned", "thrown"})
  => \A i \in 1..Len(finalRoute) :
       finalRoute[i].type # "start"
       => ((~inRouteWithRoads(finalRoute[i]) /\ inSkipped(finalRoute[i]))
             <=> finalRoute[i].hasRoad = FALSE)

\* ------------------------------------------------------------------------
\* the cell a waypoint was placed for: its position lies in the cell, the
\* border included (the centre of the cell, or a point of a road clipped to
\* the cell)
placedFor(wp, k) ==
  /\ squares[k].bounds[1] * Unit <= wp.lat /\ wp.lat <= squares[k].bounds[3] * Unit
  /\ squares[k].bounds[2] * Unit <= wp.lon /\ wp.lon <= squares[k].bounds[4] * Unit

cellWaypoints == {k \in 1..Len(finalRoute) : finalRoute[k].type # "start"}

\* C11 (as claimed): in the latest revision every waypoint of the final
\* route (the start point aside) carries the gridCoords of the cell it was
\* placed for, whatever the order the TSP solver, 2-opt or the centre
\* fallback put the cells in
C11_GridCoordsFollowCell ==
  (revision = "latest" /\ rpc \in {"awaitBRouter", "returned", "thrown"}) =>
    /\ Len(finalRoute) = Len(squares) + (IF roundtrip THEN 2 ELSE 1)
    /\ \A k \in cellWaypoints :
         \E c \in 1..Len(squares) :
           /\ placedFor(finalRoute[k], c)
           /\ finalRoute[k].gridCoords = gridCoordsOf(c)

\* ------------------------------------------------------------------------
\* the request that succeeded
lastAttempt == attempts[Len(attempts)]

\* the submitted list came from SimplificationStrategy.nextLevel() (a
\* threshold level) or from createMinimalWaypoints
fromSimplification(entry) == entry.level >= 0 \/ entry.tier = "minimal"

\* C12: a returned route carries simplified = true whenever the waypoint list
\* submitted for it was produced by a simplification threshold or by the
\* minimal skeleton
C12_SimplifiedFlagSet ==
  (rpc = "returned" /\ fromSimplification(lastAttempt)) => outcome.simplified

\* ------------------------------------------------------------------------
\* the positions of solverCalls at which the order was constructed (solveTSP
\* runs the nearest-neighbour construction)
constructions == {k \in 1..Len(solverCalls) : solverCalls[k] = "solveTSP"}

\* C13: once calculateRoute has built its waypoints, the TSP solver has
\* constructed the visiting order exactly once, as the first solver call; no
\* later step (placement, refinement round, fallback tier) constructs it again
C13_OrderConstructedOnce ==
  (rpc \in {"awaitBRouter", "returned", "thrown"}) => constructions = {1}

\* a route came back after the refinement loop re-ran 2-opt on the order
C13_Witness ==
  /\ revision = "latest" /\ rpc = "returned" /\ Len(squares) >= 3
  /\ \E k \in 2..Len(solverCalls) : solverCalls[k] = "twoOptOptimize"

\* ------------------------------------------------------------------------
\* the cell of the request a waypoint of the sequence-aware placement was
\* placed for: squareIndex is its place in orderedSquares
cellOf(wp) == orderedCells[wp.squareIndex + 1]

\* the points the candidates of a list lie at
pointsOf(cands) == {cands[c].point : c \in 1..Len(cands)}

\* the points the roads found in a cell can offer as candidates
candidatePoints(found, square) ==
  UNION {pointsOf(cands) :
           cands \in collectCandidates(found, {}, squareCenter(square))}

\* the candidate points the roads of a waypoint's cell offer besides the
\* point the waypoint was placed at
otherCandidates(wp) ==
  UNION {candidatePoints(found, squares[cellOf(wp)]) :
           found \in findRoadsInSquare(roadData, squares[cellOf(wp)])}
    \ {[lat |-> wp.lat, lon |-> wp.lon]}

\* C15 (as claimed): after sequence-aware placement every waypoint placed on
\* a road whose cell offers other candidate points keeps next-best
\* candidates of its cell as its alternatives
C15_AlternativesRetained ==
  (revision = "latest" /\ rpc \in {"awaitBRouter", "returned", "thrown"}) =>
    \A k \in cellWaypoints :
      (finalRoute[k].hasRoad = TRUE /\ otherCandidates(finalRoute[k]) # {}) =>
        /\ finalRoute[k].alternatives # <<>>
        /\ \A a \in 1..Len(finalRoute[k].alternatives) :
             [lat |-> finalRoute[k].alternatives[a].lat,
              lon |-> finalRoute[k].alternatives[a].lon]
               \in otherCandidates(finalRoute[k])

\* ------------------------------------------------------------------------
\* Properties of the direction filter and the greedy selection
\* ------------------------------------------------------------------------
cellsBefore(k) == {<<selected[q].i, selected[q].j>> : q \in 1..(k - 1)}

\* C18: when fewer than four directions are allowed, a candidate that
\* matches none of them is selected only after every candidate that matches
\* one of them has been selected.
C18_PenaltyExcludes ==
  (opc = "done" /\ Cardinality(direction) < 4) =>
    \A k \in 1..Len(selected) :
      \/ matchesAnyDirection(selected[k], direction)
      \/ \A m \in 1..Len(scored) :
            matchesAnyDirection(scored[m], direction)
              => <<scored[m].i, scored[m].j>> \in cellsBefore(k)

\* C18 witness: a border cell outside the allowed directions is selected
\* after a matching cell of a farther layer, although its score without the
\* penalty would be the higher one.
C18_Witness ==
  /\ opc = "done" /\ Cardinality(direction) < 4 /\ Len(selected) >= 2
  /\ \E k \in 2..Len(selected) :
       /\ ~matchesAnyDirection(selected[k], direction)
       /\ selected[k].layerDistance = 0
       /\ \E q \in 1..(k - 1) :
            /\ matchesAnyDirection(selected[q], direction)
            /\ selected[q].layerDistance > 0


\* C19 (as claimed): the optimizer returns min(targetNew, number of
\* candidates) cells: the selection stops when the target is reached or no
\* candidate is left.
C19_SelectsMinOfTargetAndCandidates ==
  opc = "done" => Len(selected) = Min2(targetNew, Len(scored))

\* C19 (amended): the best-scored candidate is taken before targetNew is
\* looked at, so the optimizer returns min(max(targetNew, 1), number of
\* candidates) cells: the selection stops when the target is reached or no
\* candidate is left, but never before the first cell.
C19_SelectsAtLeastOne ==
  opc = "done" => Len(selected) = Min2(Max2(targetNew, 1), Len(scored))

\* C19 witness: a target below 1 with candidates at hand, and one cell
\* returned
C19_Witness ==
  /\ opc = "done" /\ targetNew < 1 /\ Len(scored) >= 2
  /\ Len(selected) = 1

\* C19, the loop has run and stopped at the target with candidates left
\* over
C19_WitnessTarget ==
  /\ opc = "done" /\ targetNew >= 2 /\ Len(scored) > targetNew
  /\ Len(selected) = targetNew

\* C19, the other way to stop: the candidates ran out before the target
C19_WitnessExhausted ==
  /\ opc = "done" /\ Len(scored) >= 2 /\ Len(scored) < targetNew
  /\ Len(selected) = Len(scored)


\* C20: with the ReferenceSize x ReferenceSize ubersquadrat, every cell of
\* the search area visited except the cell in column 5 of the row directly
\* north of it, mode 'holes', maxHoleSize 3 and targetNew 1, the optimizer
\* returns exactly that one cell.
C20_ReferenceScenario ==
  (/\ opc = "done" /\ base = BaseOf(ReferenceSize)
   /\ visitedSet = ScanArea(base) \ {ReferenceGap(base, 5)}
   /\ optimizationMode = "holes" /\ maxHoleSize = 3 /\ targetNew = 1)
    => /\ Len(selected) = 1
       /\ <<selected[1].i, selected[1].j>> = ReferenceGap(base, 5)

\* C20 witness: the scenario has run, the gap was found as a hole of one
\* cell, and the cell was returned
C20_Witness ==
  /\ opc = "done" /\ base = BaseOf(ReferenceSize)
  /\ visitedSet = ScanArea(base) \ {ReferenceGap(base, 5)}
  /\ optimizationMode = "holes" /\ maxHoleSize = 3 /\ targetNew = 1
  /\ direction = Directions
  /\ Len(validHoles) = 1 /\ validHoles[1].size = 1
  /\ SelectedCells = {ReferenceGap(base, 5)}


\* ========================================================================
\* SimplificationStrategy and createMinimalWaypoints (routing-strategies.js)
\* as calculateRoute drives them: constructed on the route of solveTSP,
\* nextLevel() while hasMoreLevels(), createMinimalWaypoints on the waypoint
\* list of the moment
\* ========================================================================
MaxSkeletonInput == 20   \* the rows of points have 0..MaxSkeletonInput points

\* waypoints in a row, 0.004 degrees (276 m) apart
rowPoints(n) == [k \in 1..n |-> unitPoint(0, 80 * k)]

\* waypoints scattered over a few kilometres
StrategyPoints ==
  {unitPoint(0, 80), unitPoint(80, 0), unitPoint(160, 160),
   unitPoint(320, 240), unitPoint(160, 0), unitPoint(240, 320)}

MaxScattered == 4        \* at most MaxScattered scattered waypoints

\* the points of S in a fixed order
RECURSIVE inOrder(_)
inOrder(S) ==
  IF S = {} THEN <<>>
  ELSE LET p == CHOOSE x \in S : \A y \in S : Rank(x) <= Rank(y)
       IN <<p>> \o inOrder(S \ {p})

StrategyStart == unitPoint(0, 0)

\* finalWaypoints: the original list until nextLevel() has been called
strategyFinalWaypoints ==
  IF levelLists = <<>> THEN strategyWaypoints ELSE levelLists[Len(levelLists)]

\* new SimplificationStrategy(tspResult.route)
InitStrategies ==
  /\ spc = "ready"
  /\ \/ \E n \in 0..MaxSkeletonInput :
          \E tspResult \in solveTSP(rowPoints(n), StrategyStart, FALSE) :
            strategyWaypoints = tspResult.route
     \/ \E rt \in BOOLEAN, S \in SUBSET StrategyPoints :
          /\ Cardinality(S) <= MaxScattered
          /\ \E tspResult \in solveTSP(inOrder(S), StrategyStart, rt) :
               strategyWaypoints = tspResult.route
  /\ strategyLevel = -1 /\ levelLists = <<>> /\ minimalWaypoints = <<>>
  /\ PlacerIdle /\ GridIdle /\ UiIdle /\ KmlIdle
  /\ OptimizerIdle /\ TspIdle /\ RouterIdle /\ RefinementIdle /\ FetcherIdle

\* if (simplification.hasMoreLevels()) simplification.nextLevel()
NextLevel ==
  /\ spc = "ready"
  /\ hasMoreLevels(strategyLevel)
  /\ strategyLevel' = strategyLevel + 1
  /\ \E simplified \in levelWaypoints(strategyWaypoints, strategyLevel + 1) :
       levelLists' = Append(levelLists, simplified)
  /\ UNCHANGED <<spc, strategyWaypoints, minimalWaypoints, optVars, tspVars,
                 rtVars, refVars, fetchVars, partVars, placerVars, gridVars,
                 uiVars, kmlVars>>

\* if (finalWaypoints.length > 3) createMinimalWaypoints(finalWaypoints)
CreateMinimalWaypoints ==
  /\ spc = "ready"
  /\ Len(strategyFinalWaypoints) > 3
  /\ spc' = "minimal"
  /\ minimalWaypoints' = createMinimalWaypoints(strategyFinalWaypoints)
  /\ UNCHANGED <<strategyWaypoints, strategyLevel, levelLists, optVars, tspVars,
                 rtVars, refVars, fetchVars, partVars, placerVars, gridVars,
                 uiVars, kmlVars>>

NextStrategies == NextLevel \/ CreateMinimalWaypoints

SpecStrategies == InitStrategies /\ [][NextStrategies]_vars

\* whether the elements of m occur in w in the same order
RECURSIVE isSubsequence(_, _)
isSubsequence(m, w) ==
  IF m = <<>> THEN TRUE
  ELSE IF w = <<>> THEN FALSE
  ELSE IF Head(m) = Head(w) THEN isSubsequence(Tail(m), Tail(w))
  ELSE isSubsequence(m, Tail(w))

interior(w) == SubSeq(w, 2, Len(w) - 1)

\* C23: the minimal skeleton keeps the first and the last waypoint of the
\* list it is built from and at most 8 waypoints between them, all of them
\* waypoints of the list between its ends, in their order in the list.
C23_MinimalSkeleton ==
  spc = "minimal" =>
    /\ minimalWaypoints[1] = strategyFinalWaypoints[1]
    /\ minimalWaypoints[Len(minimalWaypoints)]
         = strategyFinalWaypoints[Len(strategyFinalWaypoints)]
    /\ Len(minimalWaypoints) - 2 <= 8
    /\ isSubsequence(interior(minimalWaypoints), interior(strategyFinalWaypoints))

\* C23 witness: a list with 16 or more waypoints between its ends was cut
\* down to 8 of them
C23_Witness ==
  /\ spc = "minimal" /\ Len(strategyFinalWaypoints) >= 18
  /\ Len(minimalWaypoints) = 10

\* C29 (as claimed): each list nextLevel() returns is no longer than the list
\* the level before returned for the same original waypoints.
C29_LevelsNeverLonger ==
  \A k \in 2..Len(levelLists) : Len(levelLists[k]) <= Len(levelLists[k - 1])


\* C25 (as claimed): the squares handed to optimizeWaypointsWithSequence are
\* the proposed squares, each exactly once, whatever the waypoints of the
\* first placement are.
C25_OrderedSquaresPermutation ==
  (/\ revision \in {"strategies", "latest", "sequential"}
   /\ rpc # "start" /\ ~roadFetchFailed) =>
    /\ Len(orderedCells) = Len(squares)
    /\ \A k \in 1..Len(squares) :
         Cardinality({i \in 1..Len(orderedCells) : orderedCells[i] = k}) = 1



\* ------------------------------------------------------------------------
\* One cell of optimizeWaypoints and of optimizeWaypointsWithSequence:
\* findRoadsInSquare, then findBestWaypointOnRoads or
\* findBestWaypointWithNeighbors (operators above, with the router's).
\* ------------------------------------------------------------------------
MaxCellRoads == 3

\* the cell, and the cells east and north of it that may come next
placerSquare == squareAt(60, 60, NoGridCoords)

eastSquare == squareAt(60, 60 + CellSpan, NoGridCoords)

northSquare == squareAt(60 + CellSpan, 60, NoGridCoords)

\* the parts inside the cell of the roads it may hold
RoadSegments ==
  << [a |-> <<0, 0>>, b |-> <<120, 120>>],
     [a |-> <<0, 120>>, b |-> <<120, 0>>],
     [a |-> <<0, 30>>, b |-> <<120, 30>>],
     [a |-> <<30, 0>>, b |-> <<30, 120>>],
     [a |-> <<0, 90>>, b |-> <<60, 120>>],
     [a |-> <<90, 60>>, b |-> <<120, 60>>] >>

\* the same roads running on, straight, beyond the sides of the cell
LongRoads ==
  << [a |-> <<-60, -60>>, b |-> <<180, 180>>],
     [a |-> <<-60, 180>>, b |-> <<180, -60>>],
     [a |-> <<-60, 30>>, b |-> <<180, 30>>],
     [a |-> <<30, -60>>, b |-> <<30, 180>>],
     [a |-> <<-30, 75>>, b |-> <<90, 135>>],
     [a |-> <<90, 60>>, b |-> <<180, 60>>] >>

\* the points where the route may come from or go to outside the cell
PlacerPoints == {unitPoint(30, -60), unitPoint(180, 60)}

\* the road data: the chosen roads in list order, those in B running on
\* beyond the cell
RECURSIVE roadsOf(_, _, _)
roadsOf(S, B, k) ==
  IF k > Len(RoadSegments) THEN <<>>
  ELSE (IF k \in S
        THEN << IF k \in B THEN LongRoads[k] ELSE RoadSegments[k] >>
        ELSE <<>>) \o roadsOf(S, B, k + 1)

\* one square of optimizeWaypoints / optimizeWaypointsWithSequence
InitPlacer ==
  /\ ppc = "cell"
  /\ \E S \in SUBSET (1..Len(RoadSegments)) :
       /\ Cardinality(S) <= MaxCellRoads
       /\ \E B \in SUBSET S :
            cellRoads \in findRoadsInSquare(roadsOf(S, B, 1), placerSquare)
  /\ prevPoint \in {<<>>} \cup PlacerPoints
  /\ \/ placerNextSquare \in {eastSquare, northSquare}
        /\ nextPoint = squareCenter(placerNextSquare)
     \/ placerNextSquare = NoSquare /\ nextPoint \in {<<>>} \cup PlacerPoints
  /\ placerCandidates = <<>> /\ placerResult = NoWaypoint
  /\ turfRelease \in TurfReleases
  /\ StrategiesIdle /\ GridIdle /\ UiIdle /\ KmlIdle
  /\ OptimizerIdle /\ TspIdle /\ RouterIdle /\ RefinementIdle /\ FetcherIdle

\* optimizeWaypoints: const waypoint = findBestWaypointOnRoads(...)
FindBestWaypointOnRoads ==
  /\ ppc = "cell"
  /\ ppc' = "neutral"
  /\ IF Len(cellRoads) = 0
       THEN placerCandidates' = <<>> /\ placerResult' = NoWaypoint
       ELSE \E cands \in collectCandidates(cellRoads, {},
                                           squareCenter(placerSquare)) :
              /\ placerCandidates' = cands
              /\ placerResult' \in waypointsOf(cands, squareCenter(placerSquare),
                                               <<>>, <<>>)
  /\ UNCHANGED <<cellRoads, prevPoint, nextPoint, placerNextSquare, turfRelease,
                 stratVars, gridVars, uiVars, kmlVars, optVars, tspVars, rtVars,
                 refVars, fetchVars, partVars>>

\* optimizeWaypointsWithSequence: if (roadsInSquare.length > 0)
\*   const waypoint = findBestWaypointWithNeighbors(...)
FindBestWaypointWithNeighbors ==
  /\ ppc = "cell"
  /\ Len(cellRoads) > 0
  /\ ppc' = "sequence"
  /\ \E cands \in neighbourCandidates(cellRoads, placerSquare, nextPoint,
                                       placerNextSquare) :
       /\ placerCandidates' = cands
       /\ placerResult' \in waypointsOf(cands, squareCenter(placerSquare),
                                        prevPoint, nextPoint)
  /\ UNCHANGED <<cellRoads, prevPoint, nextPoint, placerNextSquare, turfRelease,
                 stratVars, gridVars, uiVars, kmlVars, optVars, tspVars, rtVars,
                 refVars, fetchVars, partVars>>

NextPlacer == FindBestWaypointOnRoads \/ FindBestWaypointWithNeighbors

SpecPlacer == InitPlacer /\ [][NextPlacer]_vars

\* the cell holds two roads that cross inside it
twoCrossingRoads ==
  \E i, j \in 1..Len(cellRoads) :
    i < j /\ <<>> \notin lineIntersect(cellRoads[i], cellRoads[j])

\* the candidates of the crossings
crossingCandidates ==
  {c \in SeqToSet(placerCandidates) : c.kind = "intersection"}

\* C21 (as claimed): when the cell holds two crossing roads, the placer
\* (neutral or sequence-aware) returns their intersection point, and the
\* priority of that intersection candidate is strictly greater than the
\* priority of every midpoint and nearest candidate of the cell.
C21_IntersectionWins ==
  (ppc \in {"neutral", "sequence"} /\ twoCrossingRoads) =>
    \E c \in crossingCandidates :
      /\ c.point = placerResult.point /\ c.type = placerResult.type
      /\ \A m \in SeqToSet(placerCandidates) \ crossingCandidates :
           c.priority > m.priority


\* ------------------------------------------------------------------------
\* Grid parameters (calculateGridParameters), the cell centres of the scan
\* (scanAndBuildVisitedSet) and the cell rectangles (rectFromIJ).
\* Bounds of the ubersquadrat are integers; a grid value v is kept as the
\* integer v * 2 * uberSize, so that steps and cell centres are exact.
\* ------------------------------------------------------------------------
MaxUberSize == 2
MaxExtent == 2

\* CONFIG.SCAN_RADIUS_BUFFER
SCAN_RADIUS_BUFFER == 20

\* the two revisions of scanAndBuildVisitedSet: part_000 reads
\* CONFIG.SCAN_RADIUS_BUFFER, part_007 reads CONFIG.SCAN_RADIUS_RANGE, which
\* config.js does not define
GridRevisions == {"buffer", "range"}

\* CONFIG.GRID_CELL_CENTER_OFFSET (0.5), counted in halves
GRID_CELL_CENTER_OFFSET == 1

\* south-west corners of the ubersquadrat
GridOriginLats == {-3, 2}
GridOriginLons == {-3}

\* calculateGridParameters(uberCoords, uberSize)
calculateGridParameters(u) ==
  [latStep |-> 2 * (u.maxLat - u.minLat),
   lonStep |-> 2 * (u.maxLon - u.minLon),
   originLat |-> 2 * u.size * u.minLat,
   originLon |-> 2 * u.size * u.minLon,
   baseSquare |-> [minI |-> 0, maxI |-> u.size - 1,
                   minJ |-> 0, maxJ |-> u.size - 1]]

\* origin + k * step, the south or west edge of row or column k
cellCenterCoord_Edge(origin, k, step) == origin + k * step

\* origin + (k + CONFIG.GRID_CELL_CENTER_OFFSET) * step
cellCenterCoord(origin, k, step) ==
  origin + ((2 * k + GRID_CELL_CENTER_OFFSET) * step) \div 2

\* rectFromIJ(i, j)
rectFromIJ(g, i, j) ==
  LET s == g.originLat + i * g.latStep
      w == g.originLon + j * g.lonStep
  IN [s |-> s, w |-> w, n |-> s + g.latStep, e |-> w + g.lonStep]

\* scanMinI, scanMaxI, scanMinJ, scanMaxJ; with the radius undefined the
\* four bounds are NaN
scanBounds(rev, b) ==
  IF rev = "buffer"
    THEN [isNaN |-> FALSE,
          minI |-> b.minI - SCAN_RADIUS_BUFFER, maxI |-> b.maxI + SCAN_RADIUS_BUFFER,
          minJ |-> b.minJ - SCAN_RADIUS_BUFFER, maxJ |-> b.maxJ + SCAN_RADIUS_BUFFER]
    ELSE [isNaN |-> TRUE, minI |-> 0, maxI |-> 0, minJ |-> 0, maxJ |-> 0]

\* let i = scanMinI; i <= scanMaxI and let j = scanMinJ; j <= scanMaxJ:
\* the first cell, <<>> when a loop guard fails at once (NaN <= NaN is false)
firstScanCell(rev, b) ==
  LET sb == scanBounds(rev, b)
  IN IF sb.isNaN \/ sb.minI > sb.maxI \/ sb.minJ > sb.maxJ THEN <<>>
     ELSE <<sb.minI, sb.minJ>>

\* for (i ...) for (j ...): the cell after <<i, j>>, <<>> after the last
nextScanCell(rev, b, cell) ==
  LET sb == scanBounds(rev, b)
  IN IF cell[2] < sb.maxJ THEN <<cell[1], cell[2] + 1>>
     ELSE IF cell[1] < sb.maxI THEN <<cell[1] + 1, sb.minJ>>
     ELSE <<>>

\* the cells of the scan area and of one ring around it whose rectangle
\* holds the point c, borders included
cellsContaining(g, c) ==
  LET sb == scanBounds("buffer", g.baseSquare)
      rows == {i \in (sb.minI - 1)..(sb.maxI + 1) :
                 LET r == rectFromIJ(g, i, 0) IN r.s <= c[1] /\ c[1] <= r.n}
      cols == {j \in (sb.minJ - 1)..(sb.maxJ + 1) :
                 LET r == rectFromIJ(g, 0, j) IN r.w <= c[2] /\ c[2] <= r.e}
  IN rows \X cols

\* the bounds and the size attribute of the ubersquadrat of a KML file
InitGrid ==
  /\ gpc = "kml"
  /\ gridRevision \in GridRevisions
  /\ \E la \in GridOriginLats, lo \in GridOriginLons,
        dla \in 0..MaxExtent, dlo \in {1, MaxExtent}, size \in 1..MaxUberSize :
       uber = [minLat |-> la, maxLat |-> la + dla,
               minLon |-> lo, maxLon |-> lo + dlo, size |-> size]
  /\ gridParams = NoGrid
  /\ scanNext = <<>> /\ scanLast = <<>> /\ cellCenter = <<>> /\ cellsAt = {}
  /\ StrategiesIdle /\ PlacerIdle /\ UiIdle /\ KmlIdle
  /\ OptimizerIdle /\ TspIdle /\ RouterIdle /\ RefinementIdle /\ FetcherIdle

\* const gridParams = calculateGridParameters(uberCoords, uberSize)
CalculateGridParameters ==
  /\ gpc = "kml"
  /\ gridParams' = calculateGridParameters(uber)
  /\ \E first \in {firstScanCell(gridRevision, calculateGridParameters(uber).baseSquare)} :
       /\ scanNext' = first
       /\ gpc' = IF first = <<>> THEN "done" ELSE "scan"
  /\ UNCHANGED <<gridRevision, uber, scanLast, cellCenter, cellsAt, stratVars, placerVars,
                 uiVars, kmlVars, optVars, tspVars, rtVars, refVars, fetchVars, partVars>>

\* one pass of the inner loop of scanAndBuildVisitedSet
ScanCell ==
  /\ gpc = "scan"
  /\ LET c == <<cellCenterCoord(gridParams.originLat, scanNext[1],
                                gridParams.latStep),
                cellCenterCoord(gridParams.originLon, scanNext[2],
                                gridParams.lonStep)>>
         after == nextScanCell(gridRevision, gridParams.baseSquare, scanNext)
     IN /\ cellCenter' = c
        /\ cellsAt' = cellsContaining(gridParams, c)
        /\ scanLast' = scanNext
        /\ scanNext' = after
        /\ gpc' = IF after = <<>> THEN "done" ELSE "scan"
  /\ UNCHANGED <<gridRevision, uber, gridParams, stratVars, placerVars, uiVars,
                 kmlVars, optVars, tspVars, rtVars, refVars, fetchVars, partVars>>

NextGrid == CalculateGridParameters \/ ScanCell

SpecGrid == InitGrid /\ [][NextGrid]_vars

\* the inverse of v = origin + k * step for a positive step
decodeIndex(v, origin, step) == (v - origin) \div step

\* C24: in a grid with positive steps, the centre of cell (i,j),
\* origin + (i + 0.5) * step, decodes back to exactly (i,j): (i,j) is the
\* only cell whose rectangle holds the centre, and it is the cell the
\* inverse of the origin/step mapping yields.
C24_CellCenterRoundTrip ==
  (scanLast # <<>> /\ gridParams.latStep > 0 /\ gridParams.lonStep > 0) =>
    /\ cellsAt = {scanLast}
    /\ <<decodeIndex(cellCenter[1], gridParams.originLat, gridParams.latStep),
         decodeIndex(cellCenter[2], gridParams.originLon, gridParams.lonStep)>>
       = scanLast

\* the scan has reached a cell south-west of the origin of a grid whose
\* steps are positive and not whole numbers of input units
C24_Witness ==
  /\ scanLast # <<>> /\ scanLast[1] < 0 /\ scanLast[2] < 0
  /\ gridParams.latStep > 0 /\ gridParams.lonStep > 0
  /\ uber.size > 1 /\ (uber.maxLat - uber.minLat) % uber.size # 0
  /\ uber.minLat < 0


\* ------------------------------------------------------------------------
\* The store (appStore.js) with the optimize button (OptimizeControls), the
\* start point selection (LeafletMap) and the route button (RouteControls).
\* calculateRoute waits for external services; until it settles, other
\* handlers may run.
\* ------------------------------------------------------------------------
MaxOptimizeRuns == 3

\* the cells an optimization may propose
UiCells == {1, 2, 3}

\* getter canCalculateRoute
canCalculateRoute ==
  storeStartPoint /\ proposedSquares # {}

\* getter isReady between two handlers: kmlLoading is set and cleared
\* inside processKmlContent, which does not wait
storeIsReady == storeGrid

\* the store as defineStore declares it
InitUi ==
  /\ UiIdle
  /\ StrategiesIdle /\ PlacerIdle /\ GridIdle /\ KmlIdle
  /\ OptimizerIdle /\ TspIdle /\ RouterIdle /\ RefinementIdle /\ FetcherIdle

\* processKmlContent (KmlLoader): store.resetState(), then either the
\* grid parameters are stored or the file is rejected; it runs on mount
\* for a cached file and on every click on the load button, which is never
\* disabled by a route calculation
ProcessKmlContent ==
  /\ storeGrid' \in BOOLEAN
  /\ proposedSquares' = {}
  /\ storeStartPoint' = FALSE
  /\ selectingStartPoint' = FALSE
  /\ routingCurrentRoute' = NoRoute
  /\ UNCHANGED <<optimizeRuns, calculating, inFlight, stratVars, placerVars,
                 gridVars, kmlVars, optVars, tspVars, rtVars, refVars,
                 fetchVars, partVars>>

\* handleOptimize behind its button (disabled unless isReady):
\* store.setProposedSquares(result), which calls resetRoute
HandleOptimize ==
  /\ storeIsReady
  /\ optimizeRuns < MaxOptimizeRuns
  /\ \E result \in SUBSET UiCells : proposedSquares' = result
  /\ optimizeRuns' = optimizeRuns + 1
  /\ storeStartPoint' = FALSE
  /\ selectingStartPoint' = FALSE
  /\ routingCurrentRoute' = NoRoute
  /\ UNCHANGED <<storeGrid, calculating, inFlight, stratVars, placerVars, gridVars, kmlVars,
                 optVars, tspVars, rtVars, refVars, fetchVars, partVars>>

\* toggleSelectingPoint: store.toggleSelectingStartPoint()
ToggleSelectingStartPoint ==
  /\ selectingStartPoint' = ~selectingStartPoint
  /\ UNCHANGED <<storeGrid, proposedSquares, optimizeRuns, storeStartPoint, routingCurrentRoute,
                 calculating, inFlight, stratVars, placerVars, gridVars, kmlVars,
                 optVars, tspVars, rtVars, refVars, fetchVars, partVars>>

\* map click while selecting: store.setStartPoint(lat, lng)
SetStartPoint ==
  /\ selectingStartPoint
  /\ storeStartPoint' = TRUE
  /\ selectingStartPoint' = FALSE
  /\ UNCHANGED <<storeGrid, proposedSquares, optimizeRuns, routingCurrentRoute, calculating,
                 inFlight, stratVars, placerVars, gridVars, kmlVars,
                 optVars, tspVars, rtVars, refVars, fetchVars, partVars>>

\* handleCalculateRoute up to its await: the button is disabled while
\* calculating; calculateRoute reads the proposed squares when called
HandleCalculateRoute ==
  /\ ~calculating
  /\ canCalculateRoute
  /\ calculating' = TRUE
  /\ inFlight' = [squares |-> proposedSquares, run |-> optimizeRuns]
  /\ UNCHANGED <<storeGrid, proposedSquares, optimizeRuns, storeStartPoint,
                 selectingStartPoint, routingCurrentRoute, stratVars, placerVars,
                 gridVars, kmlVars, optVars, tspVars, rtVars, refVars, fetchVars,
                 partVars>>

\* handleCalculateRoute after its await resolved: store.setCurrentRoute,
\* then emit('route-calculated'). handleRouteCalculated (App.vue) rebuilds
\* the proposed squares from the waypoints of routeData.allSquares that
\* carry gridCoords; allSquares always holds the start point, and no
\* waypoint carries gridCoords, since the store has no proposedMetadata to
\* hand to calculateRoute: the rebuilt list it stores is empty
RouteResolved ==
  /\ calculating
  /\ routingCurrentRoute' = inFlight
  /\ proposedSquares' = {}
  /\ calculating' = FALSE
  /\ inFlight' = NoRoute
  /\ UNCHANGED <<storeGrid, optimizeRuns, storeStartPoint, selectingStartPoint,
                 stratVars, placerVars, gridVars, kmlVars,
                 optVars, tspVars, rtVars, refVars, fetchVars, partVars>>

\* handleCalculateRoute after its await rejected: catch and finally
RouteRejected ==
  /\ calculating
  /\ calculating' = FALSE
  /\ inFlight' = NoRoute
  /\ UNCHANGED <<storeGrid, proposedSquares, optimizeRuns, storeStartPoint,
                 selectingStartPoint, routingCurrentRoute, stratVars, placerVars,
                 gridVars, kmlVars, optVars, tspVars, rtVars, refVars, fetchVars,
                 partVars>>

NextUi ==
  \/ ProcessKmlContent
  \/ HandleOptimize
  \/ ToggleSelectingStartPoint
  \/ SetStartPoint
  \/ HandleCalculateRoute
  \/ RouteResolved
  \/ RouteRejected

SpecUi == InitUi /\ [][NextUi]_vars

\* C26: when a new optimization replaces the proposed squares while a
\* route calculation is in flight, the result of that calculation is not
\* stored: the current route, if any, was calculated for the proposed
\* squares of the latest optimization.
C26_SupersededNotStored ==
  routingCurrentRoute # NoRoute => routingCurrentRoute.run = optimizeRuns


\* ------------------------------------------------------------------------
\* KML loading and the optimize button of static/js/map.js. loadKml
\* returns at once; the layer fires ready or error later, and until then
\* other handlers may run, another loadKml among them.
\* ------------------------------------------------------------------------
MaxKmlLoads == 3

\* AppState.isReady()
isReady == gridFile # 0 /\ ~kmlLoading

InitKml ==
  /\ kmlLoading = FALSE /\ loadsStarted = 0 /\ pendingLoads = {}
  /\ gridFile = 0 /\ visitedFile = 0 /\ lastClick = NoClick
  /\ StrategiesIdle /\ PlacerIdle /\ GridIdle /\ UiIdle
  /\ OptimizerIdle /\ TspIdle /\ RouterIdle /\ RefinementIdle /\ FetcherIdle

\* loadKml(filename) up to its return: AppState.setLoading(true)
LoadKml ==
  /\ loadsStarted < MaxKmlLoads
  /\ loadsStarted' = loadsStarted + 1
  /\ pendingLoads' = pendingLoads \cup {loadsStarted + 1}
  /\ kmlLoading' = TRUE
  /\ UNCHANGED <<gridFile, visitedFile, lastClick, stratVars, placerVars,
                 gridVars, uiVars, optVars, tspVars, rtVars, refVars,
                 fetchVars, partVars>>

\* layer.on('error'), or layer.on('ready') for a file without ubersquadrat
\* or polygons, or whose processing throws before the grid parameters are
\* stored: AppState.setLoading(false)
LoadError ==
  /\ \E f \in pendingLoads : pendingLoads' = pendingLoads \ {f}
  /\ kmlLoading' = FALSE
  /\ UNCHANGED <<loadsStarted, gridFile, visitedFile, lastClick, stratVars,
                 placerVars, gridVars, uiVars, optVars, tspVars, rtVars,
                 refVars, fetchVars, partVars>>

\* layer.on('ready'): grid parameters and base square are stored, then the
\* visited set, unless the scan throws
LoadReady ==
  /\ \E f \in pendingLoads :
       /\ pendingLoads' = pendingLoads \ {f}
       /\ gridFile' = f
       /\ visitedFile' \in {f, visitedFile}
  /\ kmlLoading' = FALSE
  /\ UNCHANGED <<loadsStarted, lastClick, stratVars, placerVars, gridVars,
                 uiVars, optVars, tspVars, rtVars, refVars, fetchVars,
                 partVars>>

\* handleOptimizeClick: alert and return unless ready, else optimizeSquare
HandleOptimizeClick ==
  /\ lastClick' = [result |-> IF isReady THEN "optimized" ELSE "alert",
                   pending |-> pendingLoads]
  /\ UNCHANGED <<kmlLoading, loadsStarted, pendingLoads, gridFile,
                 visitedFile, stratVars, placerVars, gridVars, uiVars,
                 optVars, tspVars, rtVars, refVars, fetchVars, partVars>>

NextKml ==
  \/ LoadKml
  \/ LoadError
  \/ LoadReady
  \/ HandleOptimizeClick

SpecKml == InitKml /\ [][NextKml]_vars

\* C30: an optimization is never run while a KML load is in progress,
\* also when a second load was started before the first one finished:
\* whenever a click ran the optimizer, no load was pending.
C30_NoOptimizeWhileLoading ==
  lastClick.result = "optimized" => lastClick.pending = {}

====
